---- MODULE Spec2Model ----
(***************************************************************************)
(* Verification model of the divination engine (src/utils/divination.ts).  *)
(*                                                                         *)
(* 32-bit quantities are kept as words <<hi, lo>> of two 16-bit halves so  *)
(* that every intermediate value stays inside the checker's integers while *)
(* the arithmetic is still exactly the arithmetic modulo 2^32 of the       *)
(* program (Math.imul, ^, |, >>>, | 0).                                    *)
(***************************************************************************)
EXTENDS Integers, Sequences, FiniteSets, TLC

(***************************************************************************)
(* 32-bit word arithmetic                                                  *)
(***************************************************************************)
\* 2^16: the word <<hi, lo>> is hi * Half + lo
Half == 2 ^ 16

Pow2Table ==
    <<1, 2, 4, 8, 16, 32, 64, 128, 256, 512, 1024, 2048, 4096, 8192, 16384, 32768,
      65536>>

\* 2^k for k in 0..16
Pow2(k) == Pow2Table[k + 1]

\* a ^ b for 4-bit a and b, at [a + 1][b + 1]
XorNibble ==
    <<
      << 0,  1,  2,  3,  4,  5,  6,  7,  8,  9, 10, 11, 12, 13, 14, 15>>,
      << 1,  0,  3,  2,  5,  4,  7,  6,  9,  8, 11, 10, 13, 12, 15, 14>>,
      << 2,  3,  0,  1,  6,  7,  4,  5, 10, 11,  8,  9, 14, 15, 12, 13>>,
      << 3,  2,  1,  0,  7,  6,  5,  4, 11, 10,  9,  8, 15, 14, 13, 12>>,
      << 4,  5,  6,  7,  0,  1,  2,  3, 12, 13, 14, 15,  8,  9, 10, 11>>,
      << 5,  4,  7,  6,  1,  0,  3,  2, 13, 12, 15, 14,  9,  8, 11, 10>>,
      << 6,  7,  4,  5,  2,  3,  0,  1, 14, 15, 12, 13, 10, 11,  8,  9>>,
      << 7,  6,  5,  4,  3,  2,  1,  0, 15, 14, 13, 12, 11, 10,  9,  8>>,
      << 8,  9, 10, 11, 12, 13, 14, 15,  0,  1,  2,  3,  4,  5,  6,  7>>,
      << 9,  8, 11, 10, 13, 12, 15, 14,  1,  0,  3,  2,  5,  4,  7,  6>>,
      <<10, 11,  8,  9, 14, 15, 12, 13,  2,  3,  0,  1,  6,  7,  4,  5>>,
      <<11, 10,  9,  8, 15, 14, 13, 12,  3,  2,  1,  0,  7,  6,  5,  4>>,
      <<12, 13, 14, 15,  8,  9, 10, 11,  4,  5,  6,  7,  0,  1,  2,  3>>,
      <<13, 12, 15, 14,  9,  8, 11, 10,  5,  4,  7,  6,  1,  0,  3,  2>>,
      <<14, 15, 12, 13, 10, 11,  8,  9,  6,  7,  4,  5,  2,  3,  0,  1>>,
      <<15, 14, 13, 12, 11, 10,  9,  8,  7,  6,  5,  4,  3,  2,  1,  0>>
    >>

\* a ^ b on 16-bit halves, four bits at a time
XorBits(a, b) ==
    XorNibble[(a % 16) + 1][(b % 16) + 1]
    + 16 * XorNibble[((a \div 16) % 16) + 1][((b \div 16) % 16) + 1]
    + 256 * XorNibble[((a \div 256) % 16) + 1][((b \div 256) % 16) + 1]
    + 4096 * XorNibble[(a \div 4096) + 1][(b \div 4096) + 1]

\* a | b on 16-bit halves: a + b = (a ^ b) + 2 * (a & b)
OrBits(a, b) == (a + b + XorBits(a, b)) \div 2

\* x ^ y
Xor32(x, y) == <<XorBits(x[1], y[1]), XorBits(x[2], y[2])>>

\* x | y
Or32(x, y) == <<OrBits(x[1], y[1]), OrBits(x[2], y[2])>>

\* x >>> k, for 0 < k < 16
Shr32(x, k) ==
    <<x[1] \div Pow2(k),
      (x[2] \div Pow2(k)) + (x[1] % Pow2(k)) * Pow2(16 - k)>>

\* x << k truncated to 32 bits, for 0 < k < 16
Shl32(x, k) ==
    <<((x[1] % Pow2(16 - k)) * Pow2(k) + x[2] \div Pow2(16 - k)) % Half,
      (x[2] % Pow2(16 - k)) * Pow2(k)>>

\* (x + y) mod 2^32
Add32(x, y) ==
    <<(x[1] + y[1] + (x[2] + y[2]) \div Half) % Half, (x[2] + y[2]) % Half>>

\* (-x) mod 2^32
Neg32(x) ==
    IF x[2] = 0 THEN <<(Half - x[1]) % Half, 0>>
    ELSE <<Half - 1 - x[1], Half - x[2]>>

\* (x - y) mod 2^32
Sub32(x, y) == Add32(x, Neg32(y))

\* the full 32-bit product of two 16-bit halves
Mul16(a, b) ==
    LET p0 == (a % 256) * b
        p1 == (a \div 256) * b
        low == p0 + (p1 % 256) * 256
    IN  <<((p1 \div 256) + low \div Half) % Half, low % Half>>

\* Math.imul(x, y): the low 32 bits of the product
Imul(x, y) ==
    LET ll == Mul16(x[2], y[2])
    IN  <<(ll[1] + Mul16(x[1], y[2])[2] + Mul16(x[2], y[1])[2]) % Half, ll[2]>>

\* is the word negative when read as a signed 32-bit integer
IsNeg32(x) == x[1] >= 32768

(***************************************************************************)
(* Image hasher and seeded PRNG                                            *)
(***************************************************************************)
HashStride == 400

\* the fold over the bytes at the indices 0, 200, 400, ...
RECURSIVE HashFromHalfStride(_, _, _)
HashFromHalfStride(data, i, hash) ==
    IF i >= Len(data) THEN hash
    ELSE HashFromHalfStride(data, i + 200,
                  Add32(Sub32(Shl32(hash, 5), hash), <<0, data[i + 1]>>))

\* for (i = 0; i < data.length; i += 400) hash = ((hash << 5) - hash + data[i]) | 0
RECURSIVE HashFrom(_, _, _)
HashFrom(data, i, hash) ==
    IF i >= Len(data) THEN hash
    ELSE HashFrom(data, i + HashStride,
                  Add32(Sub32(Shl32(hash, 5), hash), <<0, data[i + 1]>>))

\* Math.abs of a signed 32-bit value (|-2^31| = 2^31 is <<32768, 0>>)
Abs32(x) == IF IsNeg32(x) THEN Neg32(x) ELSE x

\* the fold without Math.abs
hashImageDataSigned(imageData) == HashFrom(imageData.data, 0, <<0, 0>>)

hashImageData(imageData) == Abs32(HashFrom(imageData.data, 0, <<0, 0>>))

\* 0x6D2B79F5
MulberryInc == <<27947, 31221>>

\* the closure state captured by createSeededRandom(seed)
createSeededRandom(seed) == seed

\* one call of the closure: [seed |-> the advanced state, value |-> the word
\* u with random() = u / 2^32]
random(seed) ==
    LET t0 == Add32(seed, MulberryInc)
        t1 == Imul(Xor32(t0, Shr32(t0, 15)), Or32(t0, <<0, 1>>))
        t2 == Xor32(t1, Add32(t1, Imul(Xor32(t1, Shr32(t1, 7)), Or32(t1, <<0, 61>>))))
    IN  [seed |-> t0, value |-> Xor32(t2, Shr32(t2, 14))]

(***************************************************************************)
(* Line states                                                             *)
(***************************************************************************)
LineValue == {6, 7, 8, 9}

\* null, as a record so that it compares with every object
null == [isNull |-> TRUE]

\* every line turns into its opposite, changing or not
createLineStateAlwaysFlips(value) ==
    LET isYang == value = 7 \/ value = 9
        isChanging == value = 6 \/ value = 9
    IN  [value |-> value,
         isChanging |-> isChanging,
         currentType |-> IF isYang THEN "yang" ELSE "yin",
         futureType |-> IF isYang THEN "yin" ELSE "yang"]

createLineState(value) ==
    LET isYang == value = 7 \/ value = 9
        isChanging == value = 6 \/ value = 9
    IN  [value |-> value,
         isChanging |-> isChanging,
         currentType |-> IF isYang THEN "yang" ELSE "yin",
         futureType |-> IF isChanging
                        THEN (IF isYang THEN "yin" ELSE "yang")
                        ELSE (IF isYang THEN "yang" ELSE "yin")]

RECURSIVE BinaryFrom(_, _, _)
BinaryFrom(lines, useTransformed, i) ==
    IF i >= 6 THEN 0
    ELSE LET lineType == IF useTransformed THEN lines[i + 1].futureType
                         ELSE lines[i + 1].currentType
         IN  (IF lineType = "yang" THEN Pow2(i) ELSE 0)
             + BinaryFrom(lines, useTransformed, i + 1)

\* bit i (0 = lowest) is set iff lines[i] (0-based) is yang
linesToBinary(lines, useTransformed) == BinaryFrom(lines, useTransformed, 0)

(***************************************************************************)
(* Hexagram lookup                                                         *)
(***************************************************************************)
\* the binary literal 0b b5 b4 b3 b2 b1 b0
B(b5, b4, b3, b2, b1, b0) == 32 * b5 + 16 * b4 + 8 * b3 + 4 * b2 + 2 * b1 + b0

\* the object literal, entry by entry: <<key, value>>
KING_WEN_SEQUENCE ==
    <<
       <<B(1,1,1,1,1,1), 1>>, <<B(0,0,0,0,0,0), 2>>, <<B(1,0,0,0,1,0), 3>>, <<B(0,1,0,0,0,1), 4>>,
       <<B(1,1,1,0,1,0), 5>>, <<B(0,1,0,1,1,1), 6>>, <<B(0,1,0,0,0,0), 7>>, <<B(0,0,0,0,1,0), 8>>,
       <<B(1,1,1,0,1,1), 9>>, <<B(1,1,0,1,1,1), 10>>, <<B(1,1,1,0,0,0), 11>>, <<B(0,0,0,1,1,1), 12>>,
       <<B(1,0,1,1,1,1), 13>>, <<B(1,1,1,1,0,1), 14>>, <<B(0,0,1,0,0,0), 15>>, <<B(0,0,0,1,0,0), 16>>,
       <<B(1,0,0,1,1,0), 17>>, <<B(0,1,1,0,0,1), 18>>, <<B(1,1,0,0,0,0), 19>>, <<B(0,0,0,0,1,1), 20>>,
       <<B(1,0,0,1,0,1), 21>>, <<B(1,0,1,0,0,1), 22>>, <<B(0,0,0,0,0,1), 23>>, <<B(1,0,0,0,0,0), 24>>,
       <<B(1,0,0,1,1,1), 25>>, <<B(1,1,1,0,0,1), 26>>, <<B(1,0,0,0,0,1), 27>>, <<B(0,1,1,1,1,0), 28>>,
       <<B(0,1,0,0,1,0), 29>>, <<B(1,0,1,1,0,1), 30>>, <<B(0,0,1,1,1,0), 31>>, <<B(0,1,1,1,0,0), 32>>,
       <<B(0,0,1,1,1,1), 33>>, <<B(1,1,1,1,0,0), 34>>, <<B(0,0,0,1,0,1), 35>>, <<B(1,0,1,0,0,0), 36>>,
       <<B(1,0,1,0,1,1), 37>>, <<B(1,1,0,1,0,1), 38>>, <<B(0,0,1,0,1,0), 39>>, <<B(0,1,0,1,0,0), 40>>,
       <<B(1,1,0,0,0,1), 41>>, <<B(1,0,0,0,1,1), 42>>, <<B(1,1,1,1,1,0), 43>>, <<B(0,1,1,1,1,1), 44>>,
       <<B(0,0,0,1,1,0), 45>>, <<B(0,1,1,0,0,0), 46>>, <<B(0,1,0,1,1,0), 47>>, <<B(0,1,1,0,1,0), 48>>,
       <<B(1,0,1,1,1,0), 49>>, <<B(0,1,1,1,0,1), 50>>, <<B(1,0,0,1,0,0), 51>>, <<B(0,0,1,0,0,1), 52>>,
       <<B(0,0,1,0,1,1), 53>>, <<B(1,1,0,1,0,0), 54>>, <<B(1,0,1,1,0,0), 55>>, <<B(0,0,1,1,0,1), 56>>,
       <<B(0,1,1,0,1,1), 57>>, <<B(1,1,0,1,1,0), 58>>, <<B(0,1,0,0,1,1), 59>>, <<B(1,1,0,0,1,0), 60>>,
       <<B(1,1,0,0,1,1), 61>>, <<B(0,0,1,1,0,0), 62>>, <<B(1,0,1,0,1,0), 63>>, <<B(0,1,0,1,0,1), 64>>
    >>

\* the entry an object literal keeps for a key: the last one written
LastEntry(binary) ==
    CHOOSE k \in 1..Len(KING_WEN_SEQUENCE) :
        /\ KING_WEN_SEQUENCE[k][1] = binary
        /\ \A j \in (k + 1)..Len(KING_WEN_SEQUENCE) : KING_WEN_SEQUENCE[j][1] # binary

\* a table in which the last two entries carry the same number
KingWenNumberRepeated(binary) ==
    IF \E k \in 1..Len(KING_WEN_SEQUENCE) : KING_WEN_SEQUENCE[k][1] = binary
    THEN (IF KING_WEN_SEQUENCE[LastEntry(binary)][2] = 64 THEN 63
          ELSE KING_WEN_SEQUENCE[LastEntry(binary)][2])
    ELSE 0

\* a table whose entry 64 repeats the key of entry 63 (the later entry wins and
\* the pattern of 64 is left without an entry)
KingWenNumberKeyTypo(binary) ==
    IF binary = B(0,1,0,1,0,1) THEN 0
    ELSE IF binary = B(1,0,1,0,1,0) THEN 64
    ELSE IF \E k \in 1..Len(KING_WEN_SEQUENCE) : KING_WEN_SEQUENCE[k][1] = binary
         THEN KING_WEN_SEQUENCE[LastEntry(binary)][2]
         ELSE 0

\* KING_WEN_SEQUENCE[binary]; 0 stands for undefined (both are falsy)
KingWenNumber(binary) ==
    IF \E k \in 1..Len(KING_WEN_SEQUENCE) : KING_WEN_SEQUENCE[k][1] = binary
    THEN KING_WEN_SEQUENCE[LastEntry(binary)][2]
    ELSE 0

\* trigrams of hexagram number n, as the catalogue generator assigns them
TRIGRAM_MAPPING ==
    <<
       [upper |-> "heaven", lower |-> "heaven"], [upper |-> "earth", lower |-> "earth"],
       [upper |-> "water", lower |-> "thunder"], [upper |-> "mountain", lower |-> "water"],
       [upper |-> "water", lower |-> "heaven"], [upper |-> "heaven", lower |-> "water"],
       [upper |-> "earth", lower |-> "water"], [upper |-> "water", lower |-> "earth"],
       [upper |-> "wind", lower |-> "heaven"], [upper |-> "heaven", lower |-> "lake"],
       [upper |-> "earth", lower |-> "heaven"], [upper |-> "heaven", lower |-> "earth"],
       [upper |-> "heaven", lower |-> "fire"], [upper |-> "fire", lower |-> "heaven"],
       [upper |-> "earth", lower |-> "mountain"], [upper |-> "thunder", lower |-> "earth"],
       [upper |-> "lake", lower |-> "thunder"], [upper |-> "mountain", lower |-> "wind"],
       [upper |-> "earth", lower |-> "lake"], [upper |-> "wind", lower |-> "earth"],
       [upper |-> "fire", lower |-> "thunder"], [upper |-> "mountain", lower |-> "fire"],
       [upper |-> "mountain", lower |-> "earth"], [upper |-> "earth", lower |-> "thunder"],
       [upper |-> "heaven", lower |-> "thunder"], [upper |-> "mountain", lower |-> "heaven"],
       [upper |-> "mountain", lower |-> "thunder"], [upper |-> "lake", lower |-> "wind"],
       [upper |-> "water", lower |-> "water"], [upper |-> "fire", lower |-> "fire"],
       [upper |-> "lake", lower |-> "mountain"], [upper |-> "thunder", lower |-> "wind"],
       [upper |-> "heaven", lower |-> "mountain"], [upper |-> "thunder", lower |-> "heaven"],
       [upper |-> "fire", lower |-> "earth"], [upper |-> "earth", lower |-> "fire"],
       [upper |-> "wind", lower |-> "fire"], [upper |-> "fire", lower |-> "lake"],
       [upper |-> "water", lower |-> "mountain"], [upper |-> "thunder", lower |-> "water"],
       [upper |-> "mountain", lower |-> "lake"], [upper |-> "wind", lower |-> "thunder"],
       [upper |-> "lake", lower |-> "heaven"], [upper |-> "heaven", lower |-> "wind"],
       [upper |-> "lake", lower |-> "earth"], [upper |-> "earth", lower |-> "wind"],
       [upper |-> "lake", lower |-> "water"], [upper |-> "water", lower |-> "wind"],
       [upper |-> "lake", lower |-> "fire"], [upper |-> "fire", lower |-> "wind"],
       [upper |-> "thunder", lower |-> "thunder"], [upper |-> "mountain", lower |-> "mountain"],
       [upper |-> "wind", lower |-> "mountain"], [upper |-> "thunder", lower |-> "lake"],
       [upper |-> "thunder", lower |-> "fire"], [upper |-> "fire", lower |-> "mountain"],
       [upper |-> "wind", lower |-> "wind"], [upper |-> "lake", lower |-> "lake"],
       [upper |-> "wind", lower |-> "water"], [upper |-> "water", lower |-> "lake"],
       [upper |-> "wind", lower |-> "lake"], [upper |-> "thunder", lower |-> "mountain"],
       [upper |-> "water", lower |-> "fire"], [upper |-> "fire", lower |-> "water"]
    >>

\* the hexagram numbers for which the loaded catalogue holds no entry (none,
\* when the dataset is the complete one)
VARIABLE absent

\* the complete catalogue: one entry per number 1..64
Catalogue == [n \in 1..64 |-> [number |-> n, trigrams |-> TRIGRAM_MAPPING[n]]]

\* the catalogue as loaded
db ==
    [hexagrams |-> IF absent = {} THEN Catalogue
                   ELSE SelectSeq(Catalogue, LAMBDA h : h.number \notin absent)]

getHexagram(number) ==
    IF number < 1 \/ number > 64 THEN null
    ELSE IF \E k \in 1..Len(db.hexagrams) : db.hexagrams[k].number = number
         THEN db.hexagrams[CHOOSE k \in 1..Len(db.hexagrams) :
                               db.hexagrams[k].number = number]
         ELSE null

getHexagramByLines(lines, useTransformed) ==
    LET binary == linesToBinary(lines, useTransformed)
        number == KingWenNumber(binary)
    IN  IF number # 0 THEN getHexagram(number) ELSE null

(***************************************************************************)
(* Image analysis.  A brightness is the exact rational num / den: the sum  *)
(* of the per-pixel luminances in thousandths over 1000 * pixelCount.      *)
(***************************************************************************)
RECURSIVE RowLuminance(_, _, _)
RowLuminance(imageData, y, x) ==
    IF x >= imageData.width THEN 0
    ELSE LET idx == (y * imageData.width + x) * 4
         IN  299 * imageData.data[idx + 1] + 587 * imageData.data[idx + 2]
             + 114 * imageData.data[idx + 3]
             + RowLuminance(imageData, y, x + 1)

RECURSIVE TotalLuminance(_, _, _)
TotalLuminance(imageData, y, endY) ==
    IF y >= endY THEN 0
    ELSE RowLuminance(imageData, y, 0) + TotalLuminance(imageData, y + 1, endY)

getRegionBrightness(imageData, startY, endY) ==
    LET pixelCount == IF endY > startY THEN (endY - startY) * imageData.width ELSE 0
    IN  IF pixelCount > 0
        THEN [num |-> TotalLuminance(imageData, startY, endY), den |-> 1000 * pixelCount]
        ELSE [num |-> 128, den |-> 1]

\* band boundaries that give each of the first five bands floor(height / 6)
\* rows and the last band the rest
BandStartLastAbsorbs(imageData, i) ==
    IF i = 6 THEN imageData.height ELSE i * (imageData.height \div 6)

\* Math.floor(i * bandHeight) with bandHeight = height / 6
BandStart(imageData, i) == (i * imageData.height) \div 6

BandBrightness(imageData, i) ==
    getRegionBrightness(imageData, BandStart(imageData, i), BandStart(imageData, i + 1))

(***************************************************************************)
(* Comparisons of a draw random() = u / 2^32                               *)
(***************************************************************************)
Less32(x, y) == x[1] < y[1] \/ (x[1] = y[1] /\ x[2] < y[2])

\* n base-4 digits of r / d, for r < d: [q |-> the digits, r |-> what is left]
RECURSIVE Quot(_, _, _)
Quot(r, d, n) ==
    IF n = 0 THEN [q |-> 0, r |-> r]
    ELSE LET rest == Quot((4 * r) % d, d, n - 1)
         IN  [q |-> ((4 * r) \div d) * Pow2(2 * (n - 1)) + rest.q, r |-> rest.r]

\* u / 2^32 < n / d, for 0 <= n < d
LessThanFraction(u, n, d) ==
    LET hi == Quot(n, d, 8)
        lo == Quot(hi.r, d, 8)
    IN  Less32(u, <<hi.q, lo.q>>) \/ (u = <<hi.q, lo.q>> /\ lo.r > 0)

\* Math.floor((u / 2^32) * m), for 0 <= m < 2^15
FloorTimes(u, m) == (u[1] * m + (u[2] * m) \div Half) \div Half

(***************************************************************************)
(* The three line generators, as functions of the draws they consume       *)
(***************************************************************************)
\* brightness >= 128 instead of brightness > 128
ImageLineValueAtLeast(brightness, u) ==
    LET isYang == brightness.num >= 128 * brightness.den
        isChanging == Less32(u, <<16384, 0>>)
    IN  IF isYang THEN (IF isChanging THEN 9 ELSE 7)
        ELSE (IF isChanging THEN 6 ELSE 8)

\* imageMethod, loop body: one draw
ImageLineValue(brightness, u) ==
    LET isYang == brightness.num > 128 * brightness.den
        isChanging == Less32(u, <<16384, 0>>)
    IN  IF isYang THEN (IF isChanging THEN 9 ELSE 7)
        ELSE (IF isChanging THEN 6 ELSE 8)

\* random() < headsProbability, headsProbability = 0.3 + (brightness / 255) * 0.4
\*   = (765 * den + 4 * num) / (2550 * den)
IsHeads(brightness, u) ==
    LessThanFraction(u, 765 * brightness.den + 4 * brightness.num, 2550 * brightness.den)

\* a coin counted as 1 for heads and 0 for tails
CoinValueHeadCount(brightness, u) == IF IsHeads(brightness, u) THEN 1 ELSE 0

CoinValue(brightness, u) == IF IsHeads(brightness, u) THEN 3 ELSE 2

\* coinsMethod, loop body: three draws
CoinsLineValue(brightness, us) ==
    CoinValue(brightness, us[1]) + CoinValue(brightness, us[2])
    + CoinValue(brightness, us[3])

\* x % 4 || 4
CountOff(x) == IF x % 4 = 0 THEN 4 ELSE x % 4

\* one division of the stalks: the in-hand count
Division(stalks, u) ==
    LET pile == stalks - 1
        leftPile == FloorTimes(u, pile - 1) + 1
        rightPile == pile - leftPile
        right == rightPile - 1
    IN  1 + CountOff(leftPile) + CountOff(right)

Remainders(us) ==
    LET r1 == Division(49, us[1])
        r2 == Division(49 - r1, us[2])
        r3 == Division(49 - (r1 + r2), us[3])
    IN  <<r1, r2, r3>>

\* the table without its entry for 8
valueMapWithoutEight(sum) ==
    CASE sum = 6 -> 9
      [] sum = 7 -> 8
      [] sum = 9 -> 6
      [] OTHER -> 0

\* valueMap[sum], 0 for undefined
valueMap(sum) ==
    CASE sum = 6 -> 9
      [] sum = 7 -> 8
      [] sum = 8 -> 8
      [] sum = 9 -> 6
      [] OTHER -> 0

\* three draws, one per division
simulateYarrowStalkDivision(us) ==
    LET remainders == Remainders(us)
        first == IF remainders[1] = 5 THEN 3 ELSE 2
        second == IF remainders[2] = 4 THEN 3 ELSE 2
        third == IF remainders[3] = 4 THEN 3 ELSE 2
        sum == first + second + third
    IN  IF valueMap(sum) # 0 THEN valueMap(sum) ELSE 7

(***************************************************************************)
(* Result building and interpretation                                      *)
(***************************************************************************)
\* the Error thrown
Failed == [error |-> "Failed to determine primary hexagram"]

ChangingLines(lines) ==
    SelectSeq([idx \in 1..Len(lines) |-> IF lines[idx].isChanging THEN idx ELSE 0],
              LAMBDA pos : pos > 0)

\* the transformed hexagram looked up whether or not a line changes
buildDivinationResultAlwaysTransforms(lines, method_) ==
    LET changingLines == ChangingLines(lines)
        primaryHexagram == getHexagramByLines(lines, FALSE)
        transformedHexagram == getHexagramByLines(lines, TRUE)
    IN  IF primaryHexagram = null THEN Failed
        ELSE [lines |-> lines,
              primaryHexagram |-> primaryHexagram,
              changingLines |-> changingLines,
              transformedHexagram |-> transformedHexagram,
              method |-> method_]

\* the transformed hexagram looked up only when more than three lines change
buildDivinationResultAboveThree(lines, method_) ==
    LET changingLines == ChangingLines(lines)
        primaryHexagram == getHexagramByLines(lines, FALSE)
        transformedHexagram == IF Len(changingLines) > 3
                               THEN getHexagramByLines(lines, TRUE)
                               ELSE null
    IN  IF primaryHexagram = null THEN Failed
        ELSE [lines |-> lines,
              primaryHexagram |-> primaryHexagram,
              changingLines |-> changingLines,
              transformedHexagram |-> transformedHexagram,
              method |-> method_]

\* the DivinationResult, or Failed when the function throws
buildDivinationResult(lines, method_) ==
    LET changingLines == ChangingLines(lines)
        primaryHexagram == getHexagramByLines(lines, FALSE)
        transformedHexagram == IF Len(changingLines) > 0
                               THEN getHexagramByLines(lines, TRUE)
                               ELSE null
    IN  IF primaryHexagram = null THEN Failed
        ELSE [lines |-> lines,
              primaryHexagram |-> primaryHexagram,
              changingLines |-> changingLines,
              transformedHexagram |-> transformedHexagram,
              method |-> method_]

Includes(seq, pos) == \E k \in 1..Len(seq) : seq[k] = pos

Positions == <<1, 2, 3, 4, 5, 6>>

\* six changing lines read from the transformed hexagram whatever the primary
getReadingInterpretationNoQianKun(result_) ==
    LET count == Len(result_.changingLines)
        stableLines == SelectSeq(Positions, LAMBDA pos : ~Includes(result_.changingLines, pos))
    IN  CASE count = 0 ->
               [changingCount |-> 0, focus |-> "primary", relevantLines |-> <<>>]
          [] count \in {1, 2} ->
               [changingCount |-> count, focus |-> "primary",
                relevantLines |-> result_.changingLines]
          [] count = 3 ->
               [changingCount |-> 3, focus |-> "both", relevantLines |-> <<>>]
          [] count = 4 ->
               [changingCount |-> 4, focus |-> "transformed",
                relevantLines |-> stableLines]
          [] count = 5 ->
               [changingCount |-> 5, focus |-> "transformed",
                relevantLines |-> IF Len(stableLines) > 0 THEN <<Head(stableLines)>>
                                  ELSE <<>>]
          [] count = 6 ->
               [changingCount |-> 6, focus |-> "transformed", relevantLines |-> <<>>]
          [] OTHER ->
               [changingCount |-> count, focus |-> "primary", relevantLines |-> <<>>]

\* four changing lines answered with the changing positions themselves
getReadingInterpretationChangingAtFour(result_) ==
    LET count == Len(result_.changingLines)
        stableLines == SelectSeq(Positions, LAMBDA pos : ~Includes(result_.changingLines, pos))
        isQianOrKun == result_.primaryHexagram.number = 1
                       \/ result_.primaryHexagram.number = 2
    IN  CASE count = 0 ->
               [changingCount |-> 0, focus |-> "primary", relevantLines |-> <<>>]
          [] count \in {1, 2} ->
               [changingCount |-> count, focus |-> "primary",
                relevantLines |-> result_.changingLines]
          [] count = 3 ->
               [changingCount |-> 3, focus |-> "both", relevantLines |-> <<>>]
          [] count = 4 ->
               [changingCount |-> 4, focus |-> "transformed",
                relevantLines |-> result_.changingLines]
          [] count = 5 ->
               [changingCount |-> 5, focus |-> "transformed",
                relevantLines |-> IF Len(stableLines) > 0 THEN <<Head(stableLines)>>
                                  ELSE <<>>]
          [] count = 6 ->
               [changingCount |-> 6,
                focus |-> IF isQianOrKun THEN "primary" ELSE "transformed",
                relevantLines |-> <<>>]
          [] OTHER ->
               [changingCount |-> count, focus |-> "primary", relevantLines |-> <<>>]

getReadingInterpretation(result_) ==
    LET count == Len(result_.changingLines)
        stableLines == SelectSeq(Positions, LAMBDA pos : ~Includes(result_.changingLines, pos))
        isQianOrKun == result_.primaryHexagram.number = 1
                       \/ result_.primaryHexagram.number = 2
    IN  CASE count = 0 ->
               [changingCount |-> 0, focus |-> "primary", relevantLines |-> <<>>]
          [] count = 1 ->
               [changingCount |-> 1, focus |-> "primary",
                relevantLines |-> result_.changingLines]
          [] count = 2 ->
               [changingCount |-> 2, focus |-> "primary",
                relevantLines |-> result_.changingLines]
          [] count = 3 ->
               [changingCount |-> 3, focus |-> "both", relevantLines |-> <<>>]
          [] count = 4 ->
               [changingCount |-> 4, focus |-> "transformed",
                relevantLines |-> stableLines]
          [] count = 5 ->
               [changingCount |-> 5, focus |-> "transformed",
                relevantLines |-> IF Len(stableLines) > 0 THEN <<Head(stableLines)>>
                                  ELSE <<>>]
          [] count = 6 ->
               [changingCount |-> 6,
                focus |-> IF isQianOrKun THEN "primary" ELSE "transformed",
                relevantLines |-> <<>>]
          [] OTHER ->
               [changingCount |-> count, focus |-> "primary", relevantLines |-> <<>>]

(***************************************************************************)
(* Inputs                                                                  *)
(***************************************************************************)
\* images have at most MaxPixels pixels
MaxPixels == 6

\* a dark and a bright colour <<R, G, B>>; their luminances are 43.667 and
\* 212.333, so that a band holding one pixel of each has mean exactly 128
Palette == {<<13, 60, 40>>, <<131, 248, 242>>}

\* the RGBA buffer of the pixels px, alpha 255
ImageOf(w, h, px) ==
    [width |-> w, height |-> h,
     data |-> [k \in 1..(4 * w * h) |->
                 IF (k - 1) % 4 = 3 THEN 255 ELSE px[((k - 1) \div 4) + 1][((k - 1) % 4) + 1]]]

Images ==
    UNION {{ImageOf(sh[1], sh[2], px) : px \in [1..(sh[1] * sh[2]) -> Palette]} :
           sh \in {s \in (1..MaxPixels) \X (1..MaxPixels) : s[1] * s[2] <= MaxPixels}}

Methods == {"image", "coins", "yarrow"}

\* draws u (random() = u / 2^32) around the threshold imageMethod compares a
\* draw with: 0, just below 1/4, 1/4, 1/2 and the largest
DrawSamples ==
    {<<0, 0>>, <<16383, 65535>>, <<16384, 0>>, <<32768, 0>>, <<65535, 65535>>}

\* draws for the coin tosses and the stalk divisions: the smallest, 1/2 and
\* the largest
TossSamples == {<<0, 0>>, <<32768, 0>>, <<65535, 65535>>}

(***************************************************************************)
(* State                                                                   *)
(***************************************************************************)
VARIABLES
    image,      \* the ImageData handed to the method
    method,     \* which method is called
    pc,         \* "idle", "loop", "done" (returned), "read" (interpreted), "error" (thrown)
    seed,       \* the state captured by the closure random
    i,          \* the loop index of the method
    lines,      \* the LineStates pushed so far
    drawn,      \* the values random() has returned in this call
    result,     \* the DivinationResult returned
    interp,     \* the ReadingInterpretation of result
    call,       \* 1 for the first call, 2 for the repeated one
    prev        \* what the first call returned and drew

(***************************************************************************)
(* GIF files: bytes, and the values JavaScript gives to reads beyond them  *)
(***************************************************************************)
\* bytes[k] for k beyond the buffer, or for k not a number
undefined == -2

\* the result of arithmetic on undefined
NaN == -3

\* b[k] for a Uint8Array b (indices from 0)
At(b, k) == IF k \in 0..(Len(b) - 1) THEN b[k + 1] ELSE undefined

\* the operand of a bitwise operator as a 32-bit integer: undefined and NaN
\* become 0
ToInt32(x) == IF x \in {undefined, NaN} THEN 0 ELSE x

\* a + b for numbers, undefined and NaN
Plus(a, b) == IF a \in {undefined, NaN} \/ b \in {undefined, NaN} THEN NaN ELSE a + b

\* x & mask, for a mask 2^n - 1 shifted left by s bits
BitsAt(x, s, n) == (ToInt32(x) \div (2 ^ s)) % (2 ^ n)

\* bytes[k] | (bytes[k + 1] << 8)
Word(b, k) == ToInt32(At(b, k)) + 256 * ToInt32(At(b, k + 1))

\* b.slice(from, to), for numbers 0 <= from
Slice(b, from, to) ==
    LET last == IF to > Len(b) THEN Len(b) ELSE to
    IN  IF from >= last THEN <<>> ELSE SubSeq(b, from + 1, last)

\* String.fromCharCode(...bytes.slice(0, 6)) === 'GIF89a'
StartsWithGIF89a(b) == Slice(b, 0, 6) = <<71, 73, 70, 56, 57, 97>>

\* String.fromCharCode(...bytes.slice(0, 6)).startsWith('GIF')
StartsWithGIF(b) == Slice(b, 0, 3) = <<71, 73, 70>>

(***************************************************************************)
(* the files handed to the parser                                          *)
(***************************************************************************)
\* low and high byte of a 16-bit field
LE16(n) == <<n % 256, n \div 256>>

RECURSIVE Flatten(_)
Flatten(blocks) ==
    IF blocks = <<>> THEN <<>> ELSE Head(blocks) \o Flatten(Tail(blocks))

\* the two colours of the colour tables used
TableA == <<10, 20, 30, 200, 210, 220>>
TableB == <<40, 50, 60, 70, 80, 90>>

\* the logical screen the files declare
ScreenWidth == 2
ScreenHeight == 2

\* signature, version, logical screen descriptor and global colour table
Header(version, w, h, table) ==
    <<71, 73, 70>> \o version \o LE16(w) \o LE16(h)
        \o <<(IF table = <<>> THEN 0 ELSE 128), 0, 0>> \o table

GIF89a == <<56, 57, 97>>

\* a graphics control extension
GraphicsControl(disposal, hasTransparent, delay, index) ==
    <<33, 249, 4, 4 * disposal + (IF hasTransparent THEN 1 ELSE 0)>>
        \o LE16(delay) \o <<index, 0>>

\* a comment extension with one sub-block of two bytes
Comment == <<33, 254, 2, 104, 105, 0>>

\* the codes of a stream that writes every pixel as a literal: clear code,
\* the pixels, end code, each with the width the decoder reads it at
RECURSIVE LiteralCodes(_, _, _, _, _)
LiteralCodes(pixels, j, minCodeSize, nextCode, codeSize) ==
    IF j > Len(pixels)
    THEN << <<(2 ^ minCodeSize) + 1, codeSize>> >>
    ELSE LET added == IF j > 1 THEN nextCode + 1 ELSE nextCode
             grown == IF j > 1 /\ added > (2 ^ codeSize) - 1 /\ codeSize < 12
                      THEN codeSize + 1 ELSE codeSize
         IN  << <<pixels[j], codeSize>> >>
                 \o LiteralCodes(pixels, j + 1, minCodeSize, added, grown)

\* the codes as one number, first code in the lowest bits, and its length
RECURSIVE PackValue(_)
PackValue(codes) ==
    IF codes = <<>> THEN <<0, 0>>
    ELSE LET rest == PackValue(Tail(codes))
         IN  <<Head(codes)[1] + (2 ^ Head(codes)[2]) * rest[1],
               Head(codes)[2] + rest[2]>>

\* the codes packed into bytes, lowest bits first
PackCodes(codes) ==
    LET packed == PackValue(codes)
    IN  [t \in 1..((packed[2] + 7) \div 8) |->
            (packed[1] \div (2 ^ (8 * (t - 1)))) % 256]

LiteralStream(pixels, minCodeSize) ==
    PackCodes(<< <<2 ^ minCodeSize, minCodeSize + 1>> >>
        \o LiteralCodes(pixels, 1, minCodeSize,
                        (2 ^ minCodeSize) + 2, minCodeSize + 1))

\* an image descriptor with its colour table and its data in one sub-block
Image(left, top, w, h, interlaced, table, pixels) ==
    LET data == LiteralStream(pixels, 2)
    IN  <<44>> \o LE16(left) \o LE16(top) \o LE16(w) \o LE16(h)
            \o <<(IF table = <<>> THEN 0 ELSE 128)
                    + (IF interlaced THEN 64 ELSE 0)>>
            \o table \o <<2, Len(data)>> \o data \o <<0>>

Trailer == <<59>>
Padding == <<0>>
UnknownBlock == <<1>>

(***************************************************************************)
(* decompressLZW and deinterlace                                           *)
(***************************************************************************)
\* new Uint8Array(n)
Zeros(n) == [t \in 1..n |-> 0]

\* 1 << n: the shift count is n modulo 32, the result a signed 32-bit integer
ShiftOne(n) == IF n % 32 = 31 THEN (-(2 ^ 30)) * 2 ELSE 2 ^ (n % 32)

\* x << n for a byte x: the bits shifted beyond bit 31 are lost, and bit 31 is
\* the sign
ShiftLeft(x, n) ==
    LET s == n % 32
        kept == x % (2 ^ (31 - s))
        sign == (x \div (2 ^ (31 - s))) % 2
    IN  IF s < 24 THEN x * (2 ^ s)
        ELSE kept * (2 ^ s) + (IF sign = 1 THEN (-(2 ^ 30)) * 2 ELSE 0)

\* a signed 32-bit integer as a word, and the word as a signed integer
WordOf(n) == <<(n \div Half) % Half, n % Half>>
Int32Of(x) == (IF IsNeg32(x) THEN x[1] - Half ELSE x[1]) * Half + x[2]

\* a | b on signed 32-bit integers
OrInt32(a, b) ==
    IF a = 0 THEN b ELSE IF b = 0 THEN a ELSE Int32Of(Or32(WordOf(a), WordOf(b)))

\* bits | (x << n) for a byte x: where bits lies below bit n modulo 32, | is +
OrShifted(bits, x, n) ==
    IF bits >= 0 /\ (n % 32 = 31 \/ bits < 2 ^ (n % 32))
    THEN bits + ShiftLeft(x, n)
    ELSE OrInt32(bits, ShiftLeft(x, n))

\* codeTable[c], the table being a sequence indexed from code 0
Entry(codeTable, c) == codeTable[c + 1]

\* the table of the literal codes, the clear code and the end code
InitialTable(minCodeSize) ==
    [c \in 1..(ShiftOne(minCodeSize) + 2) |->
        IF c <= ShiftOne(minCodeSize) THEN <<c - 1>> ELSE <<>>]

\* the decoder's locals before its loop
LZWStart(minCodeSize, pixelCount) ==
    [codeSize |-> minCodeSize + 1,
     codeMask |-> ShiftOne(minCodeSize + 1) - 1,
     nextCode |-> ShiftOne(minCodeSize) + 2,
     codeTable |-> InitialTable(minCodeSize),
     output |-> Zeros(pixelCount),
     outputIndex |-> 0,
     bits |-> 0,
     bitCount |-> 0,
     dataIndex |-> 0,
     prevCode |-> -1,
     code |-> -1,
     stopped |-> FALSE]

\* readCode: the loop that takes bytes while fewer than codeSize bits are held
\* (here and below, a value used more than once is bound as the one element of
\* a set, so that it is computed once)
RECURSIVE FillBits(_, _)
FillBits(st, data) ==
    IF st.bitCount < st.codeSize /\ st.dataIndex < Len(data)
    THEN CHOOSE filled \in
            {FillBits(taken, data) :
                taken \in {[st EXCEPT
                             !.bits = OrShifted(@, At(data, st.dataIndex), st.bitCount),
                             !.bitCount = @ + 8,
                             !.dataIndex = @ + 1]}} : TRUE
    ELSE st

\* readCode that drops the bits left of the last byte taken
readCodeDropsBits(st, data) ==
    LET filled == FillBits(st, data)
    IN  [filled EXCEPT !.code = filled.bits % (filled.codeMask + 1),
                       !.bits = 0,
                       !.bitCount = 0]

\* readCode: bits & codeMask for a mask 2^n - 1, and bits >>= codeSize, which
\* keeps the sign and takes the shift count modulo 32
readCode(st, data) ==
    LET filled == FillBits(st, data)
    IN  [filled EXCEPT !.code = filled.bits % (filled.codeMask + 1),
                       !.bits = filled.bits \div (2 ^ (filled.codeSize % 32)),
                       !.bitCount = @ - filled.codeSize]

\* output[outputIndex++] = pixel, for each pixel of the entry that fits
RECURSIVE WriteEntry(_, _, _, _)
WriteEntry(st, entry, k, pixelCount) ==
    IF k > Len(entry) THEN st
    ELSE IF st.outputIndex < pixelCount
         THEN CHOOSE written \in
                 {WriteEntry(put, entry, k + 1, pixelCount) :
                     put \in {[st EXCEPT !.output[st.outputIndex + 1] = entry[k],
                                         !.outputIndex = @ + 1]}} : TRUE
         ELSE WriteEntry(st, entry, k + 1, pixelCount)

\* LZWStep with a code width that grows one entry early
LZWStepGrowsEarly(st, minCodeSize, pixelCount) ==
    LET code == st.code
        clearCode == ShiftOne(minCodeSize)
        endCode == clearCode + 1
    IN  IF code = clearCode
        THEN [st EXCEPT !.codeSize = minCodeSize + 1,
                        !.codeMask = ShiftOne(minCodeSize + 1) - 1,
                        !.nextCode = endCode + 1,
                        !.codeTable = InitialTable(minCodeSize),
                        !.prevCode = -1]
        ELSE IF code = endCode
        THEN [st EXCEPT !.stopped = TRUE]
        ELSE IF ~(code < st.nextCode \/ (code = st.nextCode /\ st.prevCode # -1))
        THEN [st EXCEPT !.stopped = TRUE]
        ELSE
            LET adds == st.prevCode # -1 /\ st.nextCode < 4096
                Added(written, entry) ==
                    IF adds
                    THEN [written EXCEPT
                            !.codeTable = Append(@, Append(Entry(st.codeTable, st.prevCode), entry[1])),
                            !.nextCode = @ + 1]
                    ELSE written
                Grown(added) ==
                    IF adds /\ added.nextCode >= added.codeMask /\ added.codeSize < 12
                    THEN [added EXCEPT !.codeSize = @ + 1,
                                       !.codeMask = (2 ^ (added.codeSize + 1)) - 1]
                    ELSE added
            IN  CHOOSE turned \in
                    {[Grown(added) EXCEPT !.prevCode = code] :
                        added \in
                            UNION {{Added(written, entry) :
                                      written \in {WriteEntry(st, entry, 1, pixelCount)}} :
                                   entry \in
                                      {IF code < st.nextCode
                                       THEN Entry(st.codeTable, code)
                                       ELSE Append(Entry(st.codeTable, st.prevCode),
                                                   Entry(st.codeTable, st.prevCode)[1])}}} :
                    TRUE

\* LZWStep that remembers the previous code over a clear code
LZWStepKeepsPrevCode(st, minCodeSize, pixelCount) ==
    LET code == st.code
        clearCode == ShiftOne(minCodeSize)
        endCode == clearCode + 1
    IN  IF code = clearCode
        THEN [st EXCEPT !.codeSize = minCodeSize + 1,
                        !.codeMask = ShiftOne(minCodeSize + 1) - 1,
                        !.nextCode = endCode + 1,
                        !.codeTable = InitialTable(minCodeSize)]
        ELSE IF code = endCode
        THEN [st EXCEPT !.stopped = TRUE]
        ELSE IF ~(code < st.nextCode \/ (code = st.nextCode /\ st.prevCode # -1))
        THEN [st EXCEPT !.stopped = TRUE]
        ELSE
            LET adds == st.prevCode # -1 /\ st.nextCode < 4096
                Added(written, entry) ==
                    IF adds
                    THEN [written EXCEPT
                            !.codeTable = Append(@, Append(Entry(st.codeTable, st.prevCode), entry[1])),
                            !.nextCode = @ + 1]
                    ELSE written
                Grown(added) ==
                    IF adds /\ added.nextCode > added.codeMask /\ added.codeSize < 12
                    THEN [added EXCEPT !.codeSize = @ + 1,
                                       !.codeMask = (2 ^ (added.codeSize + 1)) - 1]
                    ELSE added
            IN  CHOOSE turned \in
                    {[Grown(added) EXCEPT !.prevCode = code] :
                        added \in
                            UNION {{Added(written, entry) :
                                      written \in {WriteEntry(st, entry, 1, pixelCount)}} :
                                   entry \in
                                      {IF code < st.nextCode
                                       THEN Entry(st.codeTable, code)
                                       ELSE Append(Entry(st.codeTable, st.prevCode),
                                                   Entry(st.codeTable, st.prevCode)[1])}}} :
                    TRUE

\* LZWStep that passes over a code that stands for no entry
LZWStepSkipsInvalid(st, minCodeSize, pixelCount) ==
    LET code == st.code
        clearCode == ShiftOne(minCodeSize)
        endCode == clearCode + 1
    IN  IF code = clearCode
        THEN [st EXCEPT !.codeSize = minCodeSize + 1,
                        !.codeMask = ShiftOne(minCodeSize + 1) - 1,
                        !.nextCode = endCode + 1,
                        !.codeTable = InitialTable(minCodeSize),
                        !.prevCode = -1]
        ELSE IF code = endCode
        THEN [st EXCEPT !.stopped = TRUE]
        ELSE IF ~(code < st.nextCode \/ (code = st.nextCode /\ st.prevCode # -1))
        THEN st
        ELSE
            LET adds == st.prevCode # -1 /\ st.nextCode < 4096
                Added(written, entry) ==
                    IF adds
                    THEN [written EXCEPT
                            !.codeTable = Append(@, Append(Entry(st.codeTable, st.prevCode), entry[1])),
                            !.nextCode = @ + 1]
                    ELSE written
                Grown(added) ==
                    IF adds /\ added.nextCode > added.codeMask /\ added.codeSize < 12
                    THEN [added EXCEPT !.codeSize = @ + 1,
                                       !.codeMask = (2 ^ (added.codeSize + 1)) - 1]
                    ELSE added
            IN  CHOOSE turned \in
                    {[Grown(added) EXCEPT !.prevCode = code] :
                        added \in
                            UNION {{Added(written, entry) :
                                      written \in {WriteEntry(st, entry, 1, pixelCount)}} :
                                   entry \in
                                      {IF code < st.nextCode
                                       THEN Entry(st.codeTable, code)
                                       ELSE Append(Entry(st.codeTable, st.prevCode),
                                                   Entry(st.codeTable, st.prevCode)[1])}}} :
                    TRUE

\* one turn of the decoder's loop, after its code was read
LZWStep(st, minCodeSize, pixelCount) ==
    LET code == st.code
        clearCode == ShiftOne(minCodeSize)
        endCode == clearCode + 1
    IN  IF code = clearCode
        THEN [st EXCEPT !.codeSize = minCodeSize + 1,
                        !.codeMask = ShiftOne(minCodeSize + 1) - 1,
                        !.nextCode = endCode + 1,
                        !.codeTable = InitialTable(minCodeSize),
                        !.prevCode = -1]
        ELSE IF code = endCode
        THEN [st EXCEPT !.stopped = TRUE]
        ELSE IF ~(code < st.nextCode \/ (code = st.nextCode /\ st.prevCode # -1))
        THEN [st EXCEPT !.stopped = TRUE]
        ELSE
            LET adds == st.prevCode # -1 /\ st.nextCode < 4096
                Added(written, entry) ==
                    IF adds
                    THEN [written EXCEPT
                            !.codeTable = Append(@, Append(Entry(st.codeTable, st.prevCode), entry[1])),
                            !.nextCode = @ + 1]
                    ELSE written
                Grown(added) ==
                    IF adds /\ added.nextCode > added.codeMask /\ added.codeSize < 12
                    THEN [added EXCEPT !.codeSize = @ + 1,
                                       !.codeMask = (2 ^ (added.codeSize + 1)) - 1]
                    ELSE added
            IN  CHOOSE turned \in
                    {[Grown(added) EXCEPT !.prevCode = code] :
                        added \in
                            UNION {{Added(written, entry) :
                                      written \in {WriteEntry(st, entry, 1, pixelCount)}} :
                                   entry \in
                                      {IF code < st.nextCode
                                       THEN Entry(st.codeTable, code)
                                       ELSE Append(Entry(st.codeTable, st.prevCode),
                                                   Entry(st.codeTable, st.prevCode)[1])}}} :
                    TRUE

\* the decoder's loop (the code read and the turn are bound as the one element
\* of a set, so that each is computed once)
RECURSIVE LZWRun(_, _, _, _)
LZWRun(st, data, minCodeSize, pixelCount) ==
    IF st.stopped \/ ~(st.outputIndex < pixelCount /\ st.dataIndex <= Len(data))
    THEN st
    ELSE CHOOSE run \in
            {LZWRun(next, data, minCodeSize, pixelCount) :
                next \in {LZWStep(read, minCodeSize, pixelCount) :
                            read \in {readCode(st, data)}}} : TRUE

decompressLZW(data, minCodeSize, pixelCount) ==
    LZWRun(LZWStart(minCodeSize, pixelCount), data, minCodeSize, pixelCount).output

\* the rows one pass visits
RECURSIVE PassRows(_, _, _)
PassRows(y, step, height) ==
    IF y < height THEN <<y>> \o PassRows(y + step, step, height) ELSE <<>>

\* the rows in the order the four passes visit them
passes(height) ==
    PassRows(0, 8, height) \o PassRows(4, 8, height)
        \o PassRows(2, 4, height) \o PassRows(1, 2, height)

\* result[y * width + x] = pixels[srcIndex++], row after row
RECURSIVE CopyRows(_, _, _, _, _)
CopyRows(res, pixels, rows, width, srcIndex) ==
    IF rows = <<>> THEN res
    ELSE CopyRows([p \in 1..Len(res) |->
                      IF (p - 1) \div width = Head(rows)
                      THEN pixels[srcIndex + ((p - 1) % width) + 1]
                      ELSE res[p]],
                  pixels, Tail(rows), width, srcIndex + width)

deinterlace(pixels, width, height) ==
    IF width = 0 THEN Zeros(Len(pixels))
    ELSE CopyRows(Zeros(Len(pixels)), pixels, passes(height), width, 0)

(***************************************************************************)
(* the compositor's canvas                                                 *)
(***************************************************************************)
\* a new canvas: transparent black; a canvas is its pixels in row order, each
\* <<red, green, blue, alpha>>
NewCanvas(width, height) == [p \in 1..(width * height) |-> <<0, 0, 0, 0>>]

\* a byte stored into the pixel array: undefined is stored as 0
Stored(x) == IF x = undefined THEN 0 ELSE x

\* the drawing loops without the test for the transparent index
RECURSIVE DrawPixelsOpaque(_, _, _, _, _, _)
DrawPixelsOpaque(pixels, frame, colorTable, width, height, srcIndex) ==
    IF srcIndex >= frame.frameWidth * frame.frameHeight THEN pixels
    ELSE
        LET x == srcIndex % frame.frameWidth
            y == srcIndex \div frame.frameWidth
            colorIndex == frame.data[srcIndex + 1]
            dstX == frame.left + x
            dstY == frame.top + y
            colorOffset == colorIndex * 3
        IN  IF dstX >= width \/ dstY >= height
            THEN DrawPixelsOpaque(pixels, frame, colorTable, width, height, srcIndex + 1)
            ELSE DrawPixelsOpaque(
                    [pixels EXCEPT ![dstY * width + dstX + 1] =
                        <<Stored(At(colorTable, colorOffset)),
                          Stored(At(colorTable, colorOffset + 1)),
                          Stored(At(colorTable, colorOffset + 2)), 255>>],
                    frame, colorTable, width, height, srcIndex + 1)

\* the drawing loops that test the index in the buffer, not the column and
\* the row
RECURSIVE DrawPixelsWrapping(_, _, _, _, _, _)
DrawPixelsWrapping(pixels, frame, colorTable, width, height, srcIndex) ==
    IF srcIndex >= frame.frameWidth * frame.frameHeight THEN pixels
    ELSE
        LET x == srcIndex % frame.frameWidth
            y == srcIndex \div frame.frameWidth
            colorIndex == frame.data[srcIndex + 1]
            dstX == frame.left + x
            dstY == frame.top + y
            colorOffset == colorIndex * 3
        IN  IF colorIndex = frame.transparentIndex \/ dstY * width + dstX >= width * height
            THEN DrawPixelsWrapping(pixels, frame, colorTable, width, height, srcIndex + 1)
            ELSE DrawPixelsWrapping(
                    [pixels EXCEPT ![dstY * width + dstX + 1] =
                        <<Stored(At(colorTable, colorOffset)),
                          Stored(At(colorTable, colorOffset + 1)),
                          Stored(At(colorTable, colorOffset + 2)), 255>>],
                    frame, colorTable, width, height, srcIndex + 1)

\* the loops that draw the frame's pixels, from source index srcIndex on
RECURSIVE DrawPixels(_, _, _, _, _, _)
DrawPixels(pixels, frame, colorTable, width, height, srcIndex) ==
    IF srcIndex >= frame.frameWidth * frame.frameHeight THEN pixels
    ELSE
        LET x == srcIndex % frame.frameWidth
            y == srcIndex \div frame.frameWidth
            colorIndex == frame.data[srcIndex + 1]
            dstX == frame.left + x
            dstY == frame.top + y
            colorOffset == colorIndex * 3
        IN  IF colorIndex = frame.transparentIndex \/ dstX >= width \/ dstY >= height
            THEN DrawPixels(pixels, frame, colorTable, width, height, srcIndex + 1)
            ELSE DrawPixels(
                    [pixels EXCEPT ![dstY * width + dstX + 1] =
                        <<Stored(At(colorTable, colorOffset)),
                          Stored(At(colorTable, colorOffset + 1)),
                          Stored(At(colorTable, colorOffset + 2)), 255>>],
                    frame, colorTable, width, height, srcIndex + 1)

\* clearRect that clears the whole canvas
clearRectAll(pixels, left, top, w, h, width) ==
    [p \in 1..Len(pixels) |-> <<0, 0, 0, 0>>]

\* ctx.clearRect(left, top, w, h) on a canvas of the given width
clearRect(pixels, left, top, w, h, width) ==
    [p \in 1..Len(pixels) |->
        IF /\ (p - 1) % width \in left..(left + w - 1)
           /\ (p - 1) \div width \in top..(top + h - 1)
        THEN <<0, 0, 0, 0>> ELSE pixels[p]]

(***************************************************************************)
(* the set of files tried                                                  *)
(***************************************************************************)
\* the most frames a file of the frame family holds
MaxFrames == 3

\* the most blocks a file of the block family holds
MaxBlocks == 3

Seqs(S, n) == UNION {[1..m -> S] : m \in 0..n}

\* a frame: its graphics control extension, if any, and its image
FrameKinds ==
    { << Image(0, 0, 2, 2, FALSE, <<>>, <<0, 1, 1, 0>>) >>,
      << GraphicsControl(1, FALSE, 5, 0), Image(1, 1, 1, 1, FALSE, <<>>, <<1>>) >>,
      << GraphicsControl(2, FALSE, 0, 0), Image(0, 0, 1, 1, FALSE, <<>>, <<1>>) >>,
      << GraphicsControl(2, FALSE, 258, 0), Image(1, 0, 2, 2, FALSE, TableB, <<1, 0, 0, 1>>) >>,
      << GraphicsControl(3, FALSE, 5, 0), Image(0, 0, 2, 2, FALSE, <<>>, <<1, 1, 1, 1>>) >>,
      << GraphicsControl(3, TRUE, 65535, 0), Image(0, 1, 2, 1, FALSE, <<>>, <<0, 1>>) >>,
      << GraphicsControl(2, TRUE, 7, 1), Image(0, 0, 2, 2, TRUE, <<>>, <<1, 0, 0, 1>>) >> }

\* the blocks of the block family
BlockKinds ==
    { Image(0, 0, 1, 1, FALSE, <<>>, <<1>>),
      Image(0, 0, 1, 1, FALSE, TableB, <<1>>),
      GraphicsControl(1, FALSE, 5, 0),
      Comment, Padding, UnknownBlock }

\* a file: its header, its blocks and its end
File(head, blocks, end) == [head |-> head, blocks |-> blocks, end |-> end]

BytesOf(f) == f.head \o Flatten(f.blocks) \o f.end

\* files of one to MaxFrames frames with a global colour table and a trailer
FrameFiles ==
    { File(Header(GIF89a, ScreenWidth, ScreenHeight, TableA), Flatten(fs), Trailer) :
        fs \in Seqs(FrameKinds, MaxFrames) \ {<<>>} }

\* files of up to MaxBlocks blocks, with or without a global colour table and
\* a trailer
BlockFiles ==
    { File(Header(GIF89a, ScreenWidth, ScreenHeight, table), bs, end) :
        table \in {<<>>, TableA}, bs \in Seqs(BlockKinds, MaxBlocks),
        end \in {<<>>, Trailer} }

\* files whose signature or version is not that of a GIF
OddHeads ==
    { <<71, 73, 70, 0, 0, 0>>, <<71, 73, 70, 49, 50, 97>>,
      <<71, 73, 88, 56, 57, 97>>, <<103, 105, 102, 56, 57, 97>>,
      <<137, 80, 78, 71, 13, 10>> }

OddFiles ==
    { File(head \o SubSeq(Header(GIF89a, ScreenWidth, ScreenHeight, TableA), 7, 19),
           bs, Trailer) :
        head \in OddHeads,
        bs \in { <<Image(0, 0, 2, 2, FALSE, <<>>, <<0, 1, 1, 0>>)>>,
                 <<Image(0, 0, 1, 1, FALSE, <<>>, <<1>>), Comment,
                   Image(1, 1, 1, 1, FALSE, <<>>, <<0>>)>> } }

\* the graphics control extensions of the control family
ControlKinds ==
    { GraphicsControl(1, TRUE, 5, 1), GraphicsControl(2, FALSE, 7, 0),
      GraphicsControl(3, TRUE, 0, 0) }

\* files of two graphics control extensions, the image they precede, and an
\* image without one
ControlFiles ==
    { File(Header(GIF89a, ScreenWidth, ScreenHeight, TableA),
           <<first, second, Image(0, 0, 1, 1, FALSE, <<>>, <<1>>),
             Image(1, 1, 1, 1, FALSE, <<>>, <<0>>)>>,
           Trailer) :
        first \in ControlKinds, second \in ControlKinds }

\* the file whose every truncation is tried
CutFile ==
    File(Header(GIF89a, ScreenWidth, ScreenHeight, TableA),
         <<Comment, GraphicsControl(1, TRUE, 5, 0),
           Image(0, 0, 1, 1, FALSE, TableB, <<1>>),
           Image(0, 0, 2, 2, FALSE, <<>>, <<0, 1, 1, 0>>)>>,
         Trailer)

\* a buffer handed to the parser: the file it was cut from and its bytes
Whole(f) == [file |-> f, bytes |-> BytesOf(f)]

Cuts(f) == { [file |-> f, bytes |-> SubSeq(BytesOf(f), 1, n)] : n \in 0..(Len(BytesOf(f)) - 1) }

Buffers ==
    {Whole(f) : f \in FrameFiles \cup BlockFiles \cup OddFiles \cup ControlFiles}
        \cup Cuts(CutFile)

(***************************************************************************)
(* the state of a GIF decode: isAnimatedGif, then parseGif                 *)
(***************************************************************************)
VARIABLES
    file,               \* the file the buffer was taken from
    bytes,              \* the buffer handed to isAnimatedGif and parseGif
    gifPc,              \* where the decode stands
    offset,             \* offset (of either function)
    imageCount,         \* isAnimatedGif: imageCount
    animated,           \* what isAnimatedGif returned
    width,              \* parseGif: width
    height,             \* parseGif: height
    globalColorTable,   \* parseGif: globalColorTable
    frames,             \* parseGif: frames
    currentDelay,       \* parseGif: currentDelay
    transparentIndex,   \* parseGif: transparentIndex
    disposalMethod,     \* parseGif: disposalMethod
    descriptor,         \* parseGif: the locals of the image descriptor branch
    imageData,          \* parseGif: the bytes of imageDataBlocks, concatenated
    canvas,             \* parseGif: the pixels of the canvas
    frameImageData,     \* parseGif: frameImageData.data after the drawing loops
    previousImageData,  \* parseGif: previousImageData
    resultFrames,       \* parseGif: resultFrames
    frameIndex          \* parseGif: the index of the frame the for loop is at

fileVars == <<file, bytes>>
scanVars == <<imageCount, animated>>
screenVars == <<width, height, globalColorTable>>
controlVars == <<currentDelay, transparentIndex, disposalMethod>>
imageVars == <<descriptor, imageData>>
composeVars == <<canvas, frameImageData, previousImageData, resultFrames, frameIndex>>

gifVars ==
    <<fileVars, gifPc, offset, scanVars, screenVars, frames, controlVars,
      imageVars, composeVars>>

\* no file has been selected
NoFile ==
    /\ file = null
    /\ bytes = <<>>
    /\ gifPc = "idle"
    /\ offset = 0
    /\ imageCount = 0
    /\ animated = FALSE
    /\ width = 0
    /\ height = 0
    /\ globalColorTable = null
    /\ frames = <<>>
    /\ currentDelay = 100
    /\ transparentIndex = -1
    /\ disposalMethod = 0
    /\ descriptor = null
    /\ imageData = <<>>
    /\ canvas = <<>>
    /\ frameImageData = <<>>
    /\ previousImageData = null
    /\ resultFrames = <<>>
    /\ frameIndex = 0

(***************************************************************************)
(* the state of a call of decompressLZW                                    *)
(***************************************************************************)
VARIABLES
    stream,     \* the arguments of the call: data, minCodeSize, pixelCount
    decoder,    \* the locals of decompressLZW
    lzwPc       \* where the call stands

lzwVars == <<stream, decoder, lzwPc>>

\* decompressLZW has not been called
NoStream ==
    /\ stream = null
    /\ decoder = null
    /\ lzwPc = "idle"

(***************************************************************************)
(* the state of the history store                                          *)
(***************************************************************************)
VARIABLES
    storage,        \* localStorage's item 'yixiang_history', parsed; null if absent
    idsGenerated,   \* how many ids generateId has returned
    answer          \* the last operation, its id and whether it succeeded

storeVars == <<storage, idsGenerated, answer>>

\* the store has never been written
NoHistory ==
    /\ storage = null
    /\ idsGenerated = 0
    /\ answer = [op |-> "none", id |-> 0, ok |-> TRUE]

(***************************************************************************)
(* the state of a call of deinterlace                                      *)
(***************************************************************************)
VARIABLES
    weave,      \* the arguments and locals of the call, with the rows visited
    weavePc     \* where the call stands

weaveVars == <<weave, weavePc>>

\* deinterlace has not been called
NoWeave == weave = null /\ weavePc = "idle"

\* the variables of the divination calls
divinationVars == <<image, method, pc, seed, i, lines, drawn, result, interp, call, prev>>

\* what a divination call leaves alone
others == <<absent, gifVars, lzwVars, storeVars, weaveVars>>

vars == <<divinationVars, others>>

\* the complete dataset is loaded
CompleteCatalogue == absent = {}

Init ==
    /\ CompleteCatalogue
    /\ image \in Images
    /\ method \in Methods
    /\ pc = "idle"
    /\ seed = <<0, 0>>
    /\ i = 0
    /\ lines = <<>>
    /\ drawn = <<>>
    /\ result = null
    /\ interp = null
    /\ call = 1
    /\ prev = null
    /\ NoFile
    /\ NoStream
    /\ NoHistory
    /\ NoWeave

(***************************************************************************)
(* The method called: hash, PRNG, empty lines                              *)
(***************************************************************************)
\* the generator of the previous call kept instead of a freshly seeded one
BeginKeepsGenerator ==
    /\ pc = "idle"
    /\ seed' = IF call = 2 THEN seed ELSE createSeededRandom(hashImageData(image))
    /\ i' = 0
    /\ lines' = <<>>
    /\ drawn' = <<>>
    /\ result' = null
    /\ interp' = null
    /\ pc' = "loop"
    /\ UNCHANGED <<image, method, call, prev>>
    /\ UNCHANGED others

Begin ==
    /\ pc = "idle"
    /\ seed' = createSeededRandom(hashImageData(image))
    /\ i' = 0
    /\ lines' = <<>>
    /\ drawn' = <<>>
    /\ result' = null
    /\ interp' = null
    /\ pc' = "loop"
    /\ UNCHANGED <<image, method, call, prev>>
    /\ UNCHANGED others

\* one iteration of a method's loop, given the draws it consumed, the state
\* of the closure afterwards and the line value
Push(value, us, seedAfter, record) ==
    /\ lines' = Append(lines, createLineState(value))
    /\ i' = i + 1
    /\ seed' = seedAfter
    /\ drawn' = IF record THEN drawn \o us ELSE drawn
    /\ UNCHANGED <<image, method, pc, result, interp, call, prev>>
    /\ UNCHANGED others

ImageLine ==
    /\ pc = "loop" /\ method = "image" /\ i < 6
    /\ LET d == random(seed)
       IN  Push(ImageLineValue(BandBrightness(image, i), d.value),
                <<d.value>>, d.seed, TRUE)

\* CoinsLine that draws twice and takes the second draw for the third coin too
CoinsLineTwoDraws ==
    /\ pc = "loop" /\ method = "coins" /\ i < 6
    /\ LET d1 == random(seed)
           d2 == random(d1.seed)
           us == <<d1.value, d2.value, d2.value>>
       IN  Push(CoinsLineValue(BandBrightness(image, i), us),
                <<d1.value, d2.value>>, d2.seed, TRUE)

CoinsLine ==
    /\ pc = "loop" /\ method = "coins" /\ i < 6
    /\ LET d1 == random(seed)
           d2 == random(d1.seed)
           d3 == random(d2.seed)
           us == <<d1.value, d2.value, d3.value>>
       IN  Push(CoinsLineValue(BandBrightness(image, i), us), us, d3.seed, TRUE)

YarrowLine ==
    /\ pc = "loop" /\ method = "yarrow" /\ i < 6
    /\ LET d1 == random(seed)
           d2 == random(d1.seed)
           d3 == random(d2.seed)
           us == <<d1.value, d2.value, d3.value>>
       IN  Push(simulateYarrowStalkDivision(us), us, d3.seed, TRUE)

\* return buildDivinationResult(lines, method)
Return ==
    /\ pc = "loop" /\ i = 6
    /\ result' = buildDivinationResult(lines, method)
    /\ pc' = IF result' = Failed THEN "error" ELSE "done"
    /\ UNCHANGED <<image, method, seed, i, lines, drawn, interp, call, prev>>
    /\ UNCHANGED others

Interpret ==
    /\ pc = "done"
    /\ interp' = getReadingInterpretation(result)
    /\ pc' = "read"
    /\ UNCHANGED <<image, method, seed, i, lines, drawn, result, call, prev>>
    /\ UNCHANGED others

\* the same method is called once more on the same buffer
Again ==
    /\ pc = "read" /\ call = 1
    /\ prev' = [result |-> result, drawn |-> drawn]
    /\ call' = 2
    /\ pc' = "idle"
    /\ UNCHANGED <<image, method, seed, i, lines, drawn, result, interp>>
    /\ UNCHANGED others

Next == Begin \/ ImageLine \/ CoinsLine \/ YarrowLine \/ Return \/ Interpret \/ Again

Spec == Init /\ [][Next]_vars

(***************************************************************************)
(* The same methods over an arbitrary stream of draws                      *)
(***************************************************************************)
\* the coin and yarrow methods, whose every line value is open to the draws,
\* run on the one-pixel images
TossImages == {img \in Images : Len(img.data) = 4}

\* images of one column and 8 or 9 rows, dark and bright in stripes of one
\* and of two rows
TallImages ==
    { ImageOf(1, h, [t \in 1..h |->
                        IF ((t - 1) \div stripe) % 2 = 0
                        THEN <<13, 60, 40>> ELSE <<131, 248, 242>>]) :
        h \in {8, 9}, stripe \in {1, 2} }

InitDraws ==
    /\ CompleteCatalogue
    /\ \/ method = "image" /\ image \in Images \cup TallImages
       \/ method \in {"coins", "yarrow"} /\ image \in TossImages
    /\ pc = "idle"
    /\ seed = <<0, 0>>
    /\ i = 0
    /\ lines = <<>>
    /\ drawn = <<>>
    /\ result = null
    /\ interp = null
    /\ call = 1
    /\ prev = null
    /\ NoFile
    /\ NoStream
    /\ NoHistory
    /\ NoWeave

ImageLineAny ==
    /\ pc = "loop" /\ method = "image" /\ i < 6
    /\ \E u \in DrawSamples :
         Push(ImageLineValue(BandBrightness(image, i), u), <<u>>, seed, FALSE)

CoinsLineAny ==
    /\ pc = "loop" /\ method = "coins" /\ i < 6
    /\ \E u1 \in TossSamples, u2 \in TossSamples, u3 \in TossSamples :
         Push(CoinsLineValue(BandBrightness(image, i), <<u1, u2, u3>>),
              <<u1, u2, u3>>, seed, FALSE)

YarrowLineAny ==
    /\ pc = "loop" /\ method = "yarrow" /\ i < 6
    /\ \E u1 \in TossSamples, u2 \in TossSamples, u3 \in TossSamples :
         Push(simulateYarrowStalkDivision(<<u1, u2, u3>>), <<u1, u2, u3>>, seed, FALSE)

NextDraws ==
    Begin \/ ImageLineAny \/ CoinsLineAny \/ YarrowLineAny \/ Return \/ Interpret

SpecDraws == InitDraws /\ [][NextDraws]_vars

(***************************************************************************)
(* buildDivinationResult and getReadingInterpretation over every array of  *)
(* six line states                                                         *)
(***************************************************************************)
\* createLines(values) of the tests, for every six values
LineArrays == {[k \in 1..6 |-> createLineState(v[k])] : v \in [1..6 -> LineValue]}

\* no buffer is involved when the result is built from given lines
NoImage == [width |-> 0, height |-> 0, data |-> <<>>]

InitLines ==
    /\ CompleteCatalogue
    /\ image = NoImage
    /\ method \in Methods
    /\ pc = "loop"
    /\ seed = <<0, 0>>
    /\ i = 6
    /\ lines \in LineArrays
    /\ drawn = <<>>
    /\ result = null
    /\ interp = null
    /\ call = 1
    /\ prev = null
    /\ NoFile
    /\ NoStream
    /\ NoHistory
    /\ NoWeave

NextLines == Return \/ Interpret

SpecLines == InitLines /\ [][NextLines]_vars

(***************************************************************************)
(* getReadingInterpretation over hand-made results, as the tests make them *)
(***************************************************************************)
\* the largest position a hand-made result may list as changing
MaxPosition == 7

\* lines [7, 7, 7, 7, 7, 7] with lines[pos - 1] = createLineState(9)
MockLines(changingLines) ==
    [k \in 1..(IF \E p \in 1..Len(changingLines) : changingLines[p] > 6
               THEN MaxPosition ELSE 6) |->
        IF Includes(changingLines, k) THEN createLineState(9) ELSE createLineState(7)]

createMockResult(changingLines, primaryNumber) ==
    [lines |-> MockLines(changingLines),
     primaryHexagram |-> getHexagram(primaryNumber),
     changingLines |-> changingLines,
     transformedHexagram |-> IF Len(changingLines) > 0 THEN getHexagram(2) ELSE null,
     method |-> "image"]

\* the ascending arrays of positions
PositionArrays ==
    {SelectSeq([k \in 1..MaxPosition |-> k], LAMBDA pos : pos \in S) :
       S \in SUBSET (1..MaxPosition)}

InitReading ==
    /\ CompleteCatalogue
    /\ image = NoImage
    /\ method = "image"
    /\ pc = "done"
    /\ seed = <<0, 0>>
    /\ i = 6
    /\ \E c \in PositionArrays, n \in {1, 2, 3, 64} :
         /\ result = createMockResult(c, n)
         /\ lines = result.lines
    /\ drawn = <<>>
    /\ interp = null
    /\ call = 1
    /\ prev = null
    /\ NoFile
    /\ NoStream
    /\ NoHistory
    /\ NoWeave

NextReading == Interpret

SpecReading == InitReading /\ [][NextReading]_vars

(***************************************************************************)
(* The classical arrangement, for reference                                *)
(***************************************************************************)
\* the three lines of a trigram, bottom line first, 1 = yang
TrigramLines ==
    [heaven |-> <<1, 1, 1>>, lake |-> <<1, 1, 0>>, fire |-> <<1, 0, 1>>,
     thunder |-> <<1, 0, 0>>, wind |-> <<0, 1, 1>>, water |-> <<0, 1, 0>>,
     mountain |-> <<0, 0, 1>>, earth |-> <<0, 0, 0>>]

\* the trigram the current types of lines[from .. from + 2] draw
TrigramAt(lineStates, from) ==
    CHOOSE t \in DOMAIN TrigramLines :
        \A k \in 1..3 :
            (TrigramLines[t][k] = 1) <=> (lineStates[from + k - 1].currentType = "yang")

\* the King Wen number of the hexagram with lower trigram lines 1-3 and upper
\* trigram lines 4-6
ClassicalNumber(lineStates) ==
    CHOOSE n \in 1..64 :
        TRIGRAM_MAPPING[n] = [upper |-> TrigramAt(lineStates, 4),
                              lower |-> TrigramAt(lineStates, 1)]

(***************************************************************************)
(* Properties                                                              *)
(***************************************************************************)
Returned == pc \in {"done", "read"}

\* the line values of a result
ValuesOf(lineStates) == [k \in 1..Len(lineStates) |-> lineStates[k].value]

\* the number of a hexagram, 0 for null
NumberOf(hexagram) == IF hexagram = null THEN 0 ELSE hexagram.number

\* C1: the methods are deterministic.  When the same method has been called a
\* second time on the same buffer, the draws of the generator seeded from the
\* same seed repeat those of the first call as far as they go, and the result
\* returned has the same line values, the same changingLines and the same
\* primary and transformed hexagram numbers as the first.
C1_Deterministic ==
    call = 2 =>
        /\ pc # "error"
        /\ pc \in {"loop", "done", "read"} =>
             /\ Len(drawn) <= Len(prev.drawn)
             /\ drawn = SubSeq(prev.drawn, 1, Len(drawn))
        /\ Returned =>
             /\ drawn = prev.drawn
             /\ ValuesOf(result.lines) = ValuesOf(prev.result.lines)
             /\ result.changingLines = prev.result.changingLines
             /\ result.primaryHexagram.number = prev.result.primaryHexagram.number
             /\ NumberOf(result.transformedHexagram)
                  = NumberOf(prev.result.transformedHexagram)

\* the second call of a method has returned, after drawing from its generator
C1_Witness ==
    /\ call = 2 /\ pc = "done"
    /\ Len(drawn) >= 6
    /\ Len(result.changingLines) > 0

\* the six lines whose current types spell the pattern binary
PatternLines(binary) ==
    [k \in 1..6 |-> createLineState(IF (binary \div Pow2(k - 1)) % 2 = 1 THEN 7 ELSE 8)]

\* C2: the lookup is a bijection.  Building a result never fails; the primary
\* number lies in 1..64 (and so does the transformed one when there is one);
\* and every one of the 63 other six-bit patterns resolves to a hexagram with
\* a different number.
C2_Bijection ==
    /\ pc # "error"
    /\ pc = "done" =>
         /\ result.primaryHexagram.number \in 1..64
         /\ NumberOf(getHexagramByLines(lines, TRUE)) \in 1..64
         /\ \A b \in 0..63 :
              b # linesToBinary(lines, FALSE) =>
                LET other == getHexagramByLines(PatternLines(b), FALSE)
                IN  other # null /\ other.number # result.primaryHexagram.number

\* a result was built for the pattern the table lists last
C2_Witness ==
    /\ pc = "done"
    /\ linesToBinary(lines, FALSE) = B(0,1,0,1,0,1)
    /\ result.primaryHexagram.number = 64

\* C3: the number returned for a pattern is the classical King Wen number of
\* the hexagram whose lower trigram is lines 1-3 and whose upper trigram is
\* lines 4-6.
C3_Classical ==
    pc = "done" => result.primaryHexagram.number = ClassicalNumber(lines)

\* C4: a line state is determined by its value: isChanging iff the value is 6
\* or 9, currentType yang iff it is 7 or 9 (yin otherwise), and futureType the
\* opposite of currentType iff isChanging (equal to it otherwise).
C4_LineStates ==
    \A k \in 1..Len(lines) :
        /\ lines[k].value \in LineValue
        /\ lines[k].isChanging <=> lines[k].value \in {6, 9}
        /\ lines[k].currentType = (IF lines[k].value \in {7, 9} THEN "yang" ELSE "yin")
        /\ lines[k].futureType \in {"yin", "yang"}
        /\ (lines[k].futureType # lines[k].currentType) <=> lines[k].isChanging
        /\ lines[k].value = 6 =>
             lines[k].currentType = "yin" /\ lines[k].futureType = "yang"
        /\ lines[k].value = 7 =>
             lines[k].currentType = "yang" /\ lines[k].futureType = "yang"
        /\ lines[k].value = 8 =>
             lines[k].currentType = "yin" /\ lines[k].futureType = "yin"
        /\ lines[k].value = 9 =>
             lines[k].currentType = "yang" /\ lines[k].futureType = "yin"

\* a method has pushed line states of all four values
C4_Witness ==
    /\ pc = "loop"
    /\ {lines[k].value : k \in 1..Len(lines)} = LineValue

\* C5: in every result a method returns, transformedHexagram is non-null
\* exactly when changingLines is non-empty, that is when some line has value
\* 6 or 9.
C5_TransformedIffChanging ==
    Returned =>
        /\ (result.transformedHexagram # null) <=> (Len(result.changingLines) > 0)
        /\ (Len(result.changingLines) > 0)
             <=> (\E k \in 1..Len(result.lines) : result.lines[k].value \in {6, 9})

\* a method returned a result without changing lines, hence without a
\* transformed hexagram
C5_Witness ==
    /\ pc = "done"
    /\ method = "yarrow"
    /\ result.changingLines = <<>>
    /\ result.transformedHexagram = null

\* C6: whenever a result has a transformed hexagram, its number differs from
\* the number of the primary hexagram.
C6_TransformedDiffers ==
    Returned =>
        (result.transformedHexagram # null =>
            result.transformedHexagram.number # result.primaryHexagram.number)

\* all six lines change and the result carries two different hexagrams
C6_Witness ==
    /\ pc = "done"
    /\ Len(result.changingLines) = 6
    /\ ValuesOf(result.lines) = <<9, 6, 9, 6, 9, 6>>
    /\ result.transformedHexagram # null

\* C7: whatever the image and the draws, a method pushes only values among
\* 6, 7, 8, 9, never more than six of them, and the result it returns has
\* exactly six lines, each with such a value.
C7_SixValidLines ==
    /\ Len(lines) <= 6
    /\ \A k \in 1..Len(lines) : lines[k].value \in LineValue
    /\ Returned =>
         /\ Len(result.lines) = 6
         /\ \A k \in 1..6 : result.lines[k].value \in LineValue

\* coinsMethod returned six lines covering three heads (9) and three tails (6)
C7_Witness ==
    /\ pc = "done"
    /\ method = "coins"
    /\ Len(result.lines) = 6
    /\ {6, 9} \subseteq {result.lines[k].value : k \in 1..6}

\* the rows of band b (0 = the band at the top row) of six
BandRows(img, b) ==
    {y \in 0..(img.height - 1) : (b * img.height) \div 6 <= y /\ y < ((b + 1) * img.height) \div 6}

\* 1000 times the luminance 0.299 R + 0.587 G + 0.114 B of pixel (x, y)
Luma(img, x, y) ==
    299 * img.data[4 * (y * img.width + x) + 1]
    + 587 * img.data[4 * (y * img.width + x) + 2]
    + 114 * img.data[4 * (y * img.width + x) + 3]

RECURSIVE LumaSum(_, _)
LumaSum(img, pixels) ==
    IF pixels = {} THEN 0
    ELSE LET p == CHOOSE q \in pixels : TRUE
         IN  Luma(img, p[1], p[2]) + LumaSum(img, pixels \ {p})

BandPixels(img, b) == (0..(img.width - 1)) \X BandRows(img, b)

\* the mean luminance of band b is above 128 (never so for an empty band)
BandAbove128(img, b) ==
    /\ BandPixels(img, b) # {}
    /\ LumaSum(img, BandPixels(img, b)) > 128 * 1000 * Cardinality(BandPixels(img, b))

\* the mean luminance of band b is exactly 128
BandExactly128(img, b) ==
    /\ BandPixels(img, b) # {}
    /\ LumaSum(img, BandPixels(img, b)) = 128 * 1000 * Cardinality(BandPixels(img, b))

AllPixels(img) == (0..(img.width - 1)) \X (0..(img.height - 1))

UniformlyBright(img) == \A p \in AllPixels(img) : Luma(img, p[1], p[2]) > 128 * 1000

UniformlyDark(img) == \A p \in AllPixels(img) : Luma(img, p[1], p[2]) < 128 * 1000

\* in imageMethod, whatever the draws, line k + 1 is yang exactly when the
\* mean luminance of band k is above 128
YangIffBandAbove128 ==
    method = "image" =>
        \A k \in 1..Len(lines) :
            (lines[k].currentType = "yang") <=> BandAbove128(image, k - 1)

C9_Focus ==
    pc = "read" =>
        /\ interp.changingCount = Len(result.changingLines)
        /\ interp.focus =
             (CASE Len(result.changingLines) \in {0, 1, 2} -> "primary"
                [] Len(result.changingLines) = 3 -> "both"
                [] Len(result.changingLines) \in {4, 5} -> "transformed"
                [] Len(result.changingLines) = 6 ->
                     IF result.primaryHexagram.number \in {1, 2}
                     THEN "primary" ELSE "transformed"
                [] OTHER -> "primary")

\* a result of hexagram 2 with six changing lines was read from the primary
C9_Witness ==
    /\ pc = "read"
    /\ Len(result.changingLines) = 6
    /\ result.primaryHexagram.number = 2
    /\ interp.focus = "primary"

\* the positions 1..6 an array lists
Listed(seq) == {seq[k] : k \in 1..Len(seq)}

\* C10: relevantLines is changingLines for 1 or 2 changing lines; for 4 or 5
\* it lists, in ascending order and once each, exactly the positions of 1..6
\* that are not changing (2 resp. 1 of them), so that it is disjoint from
\* changingLines and covers 1..6 together with it; for 0, 3 and 6 it is empty.
C10_RelevantLines ==
    pc = "read" =>
        /\ Len(result.changingLines) \in {1, 2} =>
             interp.relevantLines = result.changingLines
        /\ Len(result.changingLines) \in {4, 5} =>
             /\ Len(interp.relevantLines) = 6 - Len(result.changingLines)
             /\ \A k \in 1..(Len(interp.relevantLines) - 1) :
                  interp.relevantLines[k] < interp.relevantLines[k + 1]
             /\ Listed(interp.relevantLines) = (1..6) \ Listed(result.changingLines)
             /\ Listed(interp.relevantLines) \cap Listed(result.changingLines) = {}
             /\ Listed(interp.relevantLines) \cup Listed(result.changingLines) = 1..6
        /\ Len(result.changingLines) \in {0, 3, 6} =>
             interp.relevantLines = <<>>

\* four lines change and the two others, 2 and 5, are the relevant ones
C10_Witness ==
    /\ pc = "read"
    /\ result.changingLines = <<1, 3, 4, 6>>
    /\ interp.relevantLines = <<2, 5>>

(***************************************************************************)
(* buildDivinationResult over catalogues that lack an entry                *)
(***************************************************************************)
\* the catalogues tried: the complete one and those lacking one of the
\* hexagrams 1, 2, 63 or 64
Catalogues == {{}, {1}, {2}, {63}, {64}}

InitCatalogue ==
    /\ absent \in Catalogues
    /\ image = NoImage
    /\ method = "coins"
    /\ pc = "loop"
    /\ seed = <<0, 0>>
    /\ i = 6
    /\ lines \in LineArrays
    /\ drawn = <<>>
    /\ result = null
    /\ interp = null
    /\ call = 1
    /\ prev = null
    /\ NoFile
    /\ NoStream
    /\ NoHistory
    /\ NoWeave

SpecCatalogue == InitCatalogue /\ [][NextLines]_vars

\* C11: a lookup failure is fatal.  A call returns a result only if the
\* primary pattern and, when there are changing lines, the transformed pattern
\* were both found; and with the complete catalogue no call fails.
C11_LookupFailureFatal ==
    /\ Returned =>
         /\ getHexagramByLines(lines, FALSE) # null
         /\ Len(ChangingLines(lines)) > 0 => getHexagramByLines(lines, TRUE) # null
    /\ absent = {} => pc # "error"

(***************************************************************************)
(* isAnimatedGif                                                           *)
(***************************************************************************)
\* a colour table read from the buffer
ColorTable(entries) == [entries |-> entries]

\* 1 << ((packed & 0x07) + 1)
TableSize(packed) == 2 ^ (BitsAt(packed, 0, 3) + 1)

\* packed & 0x80
HasTable(packed) == BitsAt(packed, 7, 1) = 1

\* while (offset < bytes.length && bytes[offset] !== 0) offset += bytes[offset] + 1
RECURSIVE SkipSubBlocks(_, _)
SkipSubBlocks(b, o) ==
    IF o < Len(b) /\ At(b, o) # 0 THEN SkipSubBlocks(b, o + At(b, o) + 1) ELSE o

\* no divination call is under way
NoDivination ==
    /\ image = NoImage
    /\ method = "coins"
    /\ pc = "idle"
    /\ seed = <<0, 0>>
    /\ i = 0
    /\ lines = <<>>
    /\ drawn = <<>>
    /\ result = null
    /\ interp = null
    /\ call = 1
    /\ prev = null
    /\ absent = {}

InitGif == NoDivination /\ NoFile /\ NoStream /\ NoHistory /\ NoWeave

\* what isAnimatedGif leaves alone
parseVars == <<screenVars, frames, controlVars, imageVars, composeVars>>

\* handleFileSelect: a file is selected and its bytes are read
SelectFile ==
    /\ gifPc = "idle"
    /\ \E b \in Buffers : file' = b.file /\ bytes' = b.bytes
    /\ gifPc' = "file"
    /\ UNCHANGED <<offset, scanVars, parseVars, divinationVars, absent, lzwVars, storeVars, weaveVars>>

\* isAnimatedGif: the signature is not 'GIF'
ScanRejects ==
    /\ gifPc = "file"
    /\ ~StartsWithGIF(bytes)
    /\ animated' = FALSE
    /\ gifPc' = "checked"
    /\ UNCHANGED <<fileVars, offset, imageCount, parseVars, divinationVars, absent, lzwVars, storeVars, weaveVars>>

\* isAnimatedGif: the signature is 'GIF'; skip the header and the global
\* colour table
ScanHeader ==
    /\ gifPc = "file"
    /\ StartsWithGIF(bytes)
    /\ imageCount' = 0
    /\ offset' = 13 + (IF HasTable(At(bytes, 10)) THEN TableSize(At(bytes, 10)) * 3 ELSE 0)
    /\ gifPc' = "scan"
    /\ UNCHANGED <<fileVars, animated, parseVars, divinationVars, absent, lzwVars, storeVars, weaveVars>>

\* isAnimatedGif: the loop ends at the end of the buffer
ScanEnd ==
    /\ gifPc = "scan"
    /\ ~(offset < Len(bytes))
    /\ animated' = (imageCount > 1)
    /\ gifPc' = "checked"
    /\ UNCHANGED <<fileVars, offset, imageCount, parseVars, divinationVars, absent, lzwVars, storeVars, weaveVars>>

\* isAnimatedGif: an extension is skipped
ScanExtension ==
    /\ gifPc = "scan"
    /\ offset < Len(bytes)
    /\ At(bytes, offset) = 33
    /\ offset' = SkipSubBlocks(bytes, offset + 2) + 1
    /\ UNCHANGED <<fileVars, gifPc, scanVars, parseVars, divinationVars, absent, lzwVars, storeVars, weaveVars>>

\* isAnimatedGif that answers only at the third image descriptor
ScanImageThird ==
    /\ gifPc = "scan"
    /\ offset < Len(bytes)
    /\ At(bytes, offset) = 44
    /\ imageCount' = imageCount + 1
    /\ IF imageCount + 1 > 2
       THEN /\ animated' = TRUE
            /\ offset' = offset + 1
            /\ gifPc' = "checked"
       ELSE LET imgPacked == At(bytes, offset + 9)
                data == offset + 10
                          + (IF HasTable(imgPacked) THEN TableSize(imgPacked) * 3 ELSE 0)
                          + 1
            IN  /\ offset' = SkipSubBlocks(bytes, data) + 1
                /\ UNCHANGED <<animated, gifPc>>
    /\ UNCHANGED <<fileVars, parseVars, divinationVars, absent, lzwVars, storeVars, weaveVars>>

\* isAnimatedGif: an image descriptor is counted, and skipped if it is the
\* first
ScanImage ==
    /\ gifPc = "scan"
    /\ offset < Len(bytes)
    /\ At(bytes, offset) = 44
    /\ imageCount' = imageCount + 1
    /\ IF imageCount + 1 > 1
       THEN /\ animated' = TRUE
            /\ offset' = offset + 1
            /\ gifPc' = "checked"
       ELSE LET imgPacked == At(bytes, offset + 9)
                data == offset + 10
                          + (IF HasTable(imgPacked) THEN TableSize(imgPacked) * 3 ELSE 0)
                          + 1
            IN  /\ offset' = SkipSubBlocks(bytes, data) + 1
                /\ UNCHANGED <<animated, gifPc>>
    /\ UNCHANGED <<fileVars, parseVars, divinationVars, absent, lzwVars, storeVars, weaveVars>>

\* isAnimatedGif: a trailer or a zero byte ends the loop
ScanStop ==
    /\ gifPc = "scan"
    /\ offset < Len(bytes)
    /\ At(bytes, offset) \in {59, 0}
    /\ offset' = offset + 1
    /\ animated' = (imageCount > 1)
    /\ gifPc' = "checked"
    /\ UNCHANGED <<fileVars, imageCount, parseVars, divinationVars, absent, lzwVars, storeVars, weaveVars>>

\* isAnimatedGif: any other byte is passed over
ScanOther ==
    /\ gifPc = "scan"
    /\ offset < Len(bytes)
    /\ At(bytes, offset) \notin {33, 44, 59, 0}
    /\ offset' = offset + 1
    /\ UNCHANGED <<fileVars, gifPc, scanVars, parseVars, divinationVars, absent, lzwVars, storeVars, weaveVars>>

isAnimatedGif ==
    \/ ScanRejects \/ ScanHeader \/ ScanEnd \/ ScanExtension
    \/ ScanImage \/ ScanStop \/ ScanOther

(***************************************************************************)
(* parseGif: the block loop                                                *)
(***************************************************************************)
\* what the block loop leaves alone
walkFrame == <<fileVars, scanVars, screenVars, composeVars, divinationVars, absent, lzwVars, storeVars, weaveVars>>

\* the signature is not 'GIF': throw new Error('Not a valid GIF file')
ParseRejects ==
    /\ gifPc = "checked"
    /\ ~StartsWithGIF(bytes)
    /\ gifPc' = "thrown"
    /\ UNCHANGED <<offset, frames, controlVars, imageVars, walkFrame>>

\* the logical screen descriptor and the global colour table
ParseHeader ==
    /\ gifPc = "checked"
    /\ StartsWithGIF(bytes)
    /\ width' = Word(bytes, 6)
    /\ height' = Word(bytes, 8)
    /\ LET packed == At(bytes, 10)
       IN  IF HasTable(packed)
           THEN /\ globalColorTable' = ColorTable(Slice(bytes, 13, 13 + TableSize(packed) * 3))
                /\ offset' = 13 + TableSize(packed) * 3
           ELSE /\ globalColorTable' = null
                /\ offset' = 13
    /\ frames' = <<>>
    /\ currentDelay' = 100
    /\ transparentIndex' = -1
    /\ disposalMethod' = 0
    /\ gifPc' = "blocks"
    /\ UNCHANGED <<fileVars, scanVars, imageVars, composeVars, divinationVars, absent, lzwVars, storeVars, weaveVars>>

\* the block loop ends at the end of the buffer
EndOfBuffer ==
    /\ gifPc = "blocks"
    /\ ~(offset < Len(bytes))
    /\ gifPc' = "canvas"
    /\ UNCHANGED <<offset, frames, controlVars, imageVars, walkFrame>>

\* GraphicsControlExtension that leaves the transparent index of an earlier
\* extension in place when its own flag is clear
GraphicsControlKeepsIndex ==
    /\ gifPc = "blocks"
    /\ offset < Len(bytes)
    /\ At(bytes, offset) = 33
    /\ At(bytes, offset + 1) = 249
    /\ LET gcPacked == At(bytes, offset + 3)
           hasTransparent == BitsAt(gcPacked, 0, 1) = 1
       IN  /\ disposalMethod' = BitsAt(gcPacked, 2, 3)
           /\ currentDelay' = Word(bytes, offset + 4) * 10
           /\ transparentIndex' = IF hasTransparent THEN At(bytes, offset + 6)
                                  ELSE transparentIndex
           /\ offset' = offset + (IF hasTransparent THEN 8 ELSE 7)
    /\ UNCHANGED <<gifPc, frames, imageVars, walkFrame>>

\* a graphics control extension
GraphicsControlExtension ==
    /\ gifPc = "blocks"
    /\ offset < Len(bytes)
    /\ At(bytes, offset) = 33
    /\ At(bytes, offset + 1) = 249
    /\ LET gcPacked == At(bytes, offset + 3)
           hasTransparent == BitsAt(gcPacked, 0, 1) = 1
       IN  /\ disposalMethod' = BitsAt(gcPacked, 2, 3)
           /\ currentDelay' = Word(bytes, offset + 4) * 10
           /\ transparentIndex' = IF hasTransparent THEN At(bytes, offset + 6) ELSE -1
           /\ offset' = offset + (IF hasTransparent THEN 8 ELSE 7)
    /\ UNCHANGED <<gifPc, frames, imageVars, walkFrame>>

\* any other extension: on to the loop that skips its sub-blocks
OtherExtension ==
    /\ gifPc = "blocks"
    /\ offset < Len(bytes)
    /\ At(bytes, offset) = 33
    /\ At(bytes, offset + 1) # 249
    /\ offset' = offset + 2
    /\ gifPc' = "skip"
    /\ UNCHANGED <<frames, controlVars, imageVars, walkFrame>>

\* while (bytes[offset] !== 0): the test, and the block terminator after the
\* loop
SkipTest ==
    /\ gifPc = "skip"
    /\ IF At(bytes, offset) # 0
       THEN /\ gifPc' = "skipping"
            /\ UNCHANGED offset
       ELSE /\ gifPc' = "blocks"
            /\ offset' = Plus(offset, 1)
    /\ UNCHANGED <<frames, controlVars, imageVars, walkFrame>>

\* offset += bytes[offset] + 1
SkipSubBlock ==
    /\ gifPc = "skipping"
    /\ offset' = Plus(offset, Plus(At(bytes, offset), 1))
    /\ gifPc' = "skip"
    /\ UNCHANGED <<frames, controlVars, imageVars, walkFrame>>

\* an image descriptor, its local colour table and the minimum code size
ImageDescriptor ==
    /\ gifPc = "blocks"
    /\ offset < Len(bytes)
    /\ At(bytes, offset) = 44
    /\ LET at == offset + 1
           imgPacked == At(bytes, at + 8)
           hasLocalColorTable == HasTable(imgPacked)
           table == at + 9
           code == IF hasLocalColorTable THEN table + TableSize(imgPacked) * 3 ELSE table
       IN  /\ descriptor' =
                [left |-> Word(bytes, at),
                 top |-> Word(bytes, at + 2),
                 frameWidth |-> Word(bytes, at + 4),
                 frameHeight |-> Word(bytes, at + 6),
                 interlaced |-> (BitsAt(imgPacked, 6, 1) = 1),
                 localColorTable |->
                    IF hasLocalColorTable
                    THEN ColorTable(Slice(bytes, table, table + TableSize(imgPacked) * 3))
                    ELSE null,
                 minCodeSize |-> At(bytes, code)]
           /\ offset' = code + 1
    /\ imageData' = <<>>
    /\ gifPc' = "data"
    /\ UNCHANGED <<frames, controlVars, walkFrame>>

\* while (bytes[offset] !== 0): the test
DataTest ==
    /\ gifPc = "data"
    /\ gifPc' = IF At(bytes, offset) # 0 THEN "reading" ELSE "emit"
    /\ UNCHANGED <<offset, frames, controlVars, imageVars, walkFrame>>

\* one sub-block of image data (imageDataBlocks is kept concatenated: a block
\* that is empty adds nothing to it)
DataSubBlock ==
    /\ gifPc = "reading"
    /\ LET blockSize == At(bytes, offset)
           from == Plus(offset, 1)
           to == Plus(from, blockSize)
       IN  /\ imageData' = imageData \o (IF to = NaN THEN <<>> ELSE Slice(bytes, from, to))
           /\ offset' = to
    /\ gifPc' = "data"
    /\ UNCHANGED <<descriptor, frames, controlVars, walkFrame>>

\* EmitFrame that keeps the delay for the next frame
EmitFrameKeepsDelay ==
    /\ gifPc = "emit"
    /\ offset' = Plus(offset, 1)
    /\ LET pixels == decompressLZW(imageData, descriptor.minCodeSize,
                                   descriptor.frameWidth * descriptor.frameHeight)
           finalPixels == IF descriptor.interlaced
                          THEN deinterlace(pixels, descriptor.frameWidth, descriptor.frameHeight)
                          ELSE pixels
       IN  frames' = Append(frames,
                [data |-> finalPixels,
                 delay |-> IF currentDelay = 0 THEN 100 ELSE currentDelay,
                 left |-> descriptor.left,
                 top |-> descriptor.top,
                 frameWidth |-> descriptor.frameWidth,
                 frameHeight |-> descriptor.frameHeight,
                 localColorTable |-> descriptor.localColorTable,
                 disposalMethod |-> disposalMethod,
                 transparentIndex |-> transparentIndex])
    /\ UNCHANGED currentDelay
    /\ transparentIndex' = -1
    /\ disposalMethod' = 0
    /\ gifPc' = "blocks"
    /\ UNCHANGED <<imageVars, walkFrame>>

\* the block terminator, decompression, and the frame record
EmitFrame ==
    /\ gifPc = "emit"
    /\ offset' = Plus(offset, 1)
    /\ LET pixels == decompressLZW(imageData, descriptor.minCodeSize,
                                   descriptor.frameWidth * descriptor.frameHeight)
           finalPixels == IF descriptor.interlaced
                          THEN deinterlace(pixels, descriptor.frameWidth, descriptor.frameHeight)
                          ELSE pixels
       IN  frames' = Append(frames,
                [data |-> finalPixels,
                 delay |-> IF currentDelay = 0 THEN 100 ELSE currentDelay,
                 left |-> descriptor.left,
                 top |-> descriptor.top,
                 frameWidth |-> descriptor.frameWidth,
                 frameHeight |-> descriptor.frameHeight,
                 localColorTable |-> descriptor.localColorTable,
                 disposalMethod |-> disposalMethod,
                 transparentIndex |-> transparentIndex])
    /\ currentDelay' = 100
    /\ transparentIndex' = -1
    /\ disposalMethod' = 0
    /\ gifPc' = "blocks"
    /\ UNCHANGED <<imageVars, walkFrame>>

\* the trailer ends the loop
TrailerBlock ==
    /\ gifPc = "blocks"
    /\ offset < Len(bytes)
    /\ At(bytes, offset) = 59
    /\ offset' = offset + 1
    /\ gifPc' = "canvas"
    /\ UNCHANGED <<frames, controlVars, imageVars, walkFrame>>

\* a zero byte is padding
PaddingByte ==
    /\ gifPc = "blocks"
    /\ offset < Len(bytes)
    /\ At(bytes, offset) = 0
    /\ offset' = offset + 1
    /\ UNCHANGED <<gifPc, frames, controlVars, imageVars, walkFrame>>

\* any other byte ends the loop
UnknownByte ==
    /\ gifPc = "blocks"
    /\ offset < Len(bytes)
    /\ At(bytes, offset) \notin {33, 44, 59, 0}
    /\ offset' = offset + 1
    /\ gifPc' = "canvas"
    /\ UNCHANGED <<frames, controlVars, imageVars, walkFrame>>

(***************************************************************************)
(* parseGif: the frames drawn on the canvas                                *)
(***************************************************************************)
\* ctx.getImageData(0, 0, width, height)
getImageData(pixels, w, h) == [data |-> pixels, width |-> w, height |-> h]

\* what the compositor leaves alone
composeFrame ==
    <<fileVars, offset, scanVars, screenVars, frames, controlVars, imageVars,
      divinationVars, absent, lzwVars, storeVars, weaveVars>>

\* the canvas is created
CreateCanvas ==
    /\ gifPc = "canvas"
    /\ canvas' = NewCanvas(width, height)
    /\ frameImageData' = <<>>
    /\ resultFrames' = <<>>
    /\ previousImageData' = null
    /\ frameIndex' = 1
    /\ gifPc' = "compose"
    /\ UNCHANGED composeFrame

\* a frame without a colour table is passed over
SkipFrame ==
    /\ gifPc = "compose"
    /\ frameIndex <= Len(frames)
    /\ frames[frameIndex].localColorTable = null
    /\ globalColorTable = null
    /\ frameIndex' = frameIndex + 1
    /\ UNCHANGED <<gifPc, canvas, frameImageData, previousImageData, resultFrames, composeFrame>>

\* a frame is drawn, its disposal method applied, and the canvas pushed
DrawFrame ==
    /\ gifPc = "compose"
    /\ frameIndex <= Len(frames)
    /\ ~(frames[frameIndex].localColorTable = null /\ globalColorTable = null)
    /\ LET frame == frames[frameIndex]
           colorTable == IF frame.localColorTable # null
                         THEN frame.localColorTable ELSE globalColorTable
           restored == IF previousImageData # null THEN previousImageData.data ELSE canvas
           painted == DrawPixels(restored, frame, colorTable.entries, width, height, 0)
           cleared == clearRect(painted, frame.left, frame.top,
                                frame.frameWidth, frame.frameHeight, width)
       IN  /\ frameImageData' = painted
           /\ canvas' = IF frame.disposalMethod = 2 THEN cleared ELSE painted
           /\ previousImageData' =
                IF frame.disposalMethod \in {0, 1} THEN getImageData(painted, width, height)
                ELSE IF frame.disposalMethod = 2 THEN getImageData(cleared, width, height)
                ELSE previousImageData
           /\ resultFrames' = Append(resultFrames,
                [imageData |-> getImageData(canvas', width, height),
                 delay |-> frame.delay])
    /\ frameIndex' = frameIndex + 1
    /\ UNCHANGED <<gifPc, composeFrame>>

\* return { width, height, frames: resultFrames }
ReturnParsed ==
    /\ gifPc = "compose"
    /\ frameIndex > Len(frames)
    /\ gifPc' = "returned"
    /\ UNCHANGED <<composeVars, composeFrame>>

parseGif ==
    \/ ParseRejects \/ ParseHeader \/ EndOfBuffer \/ GraphicsControlExtension
    \/ OtherExtension \/ SkipTest \/ SkipSubBlock \/ ImageDescriptor
    \/ DataTest \/ DataSubBlock \/ EmitFrame \/ TrailerBlock \/ PaddingByte
    \/ UnknownByte \/ CreateCanvas \/ SkipFrame \/ DrawFrame \/ ReturnParsed

NextGif == SelectFile \/ isAnimatedGif \/ parseGif

\* the decode runs on until it returns or throws
SpecGif == InitGif /\ [][NextGif]_vars /\ WF_vars(NextGif)

(***************************************************************************)
(* properties of the GIF decode                                            *)
(***************************************************************************)
\* the buffer begins with the three bytes 'G', 'I', 'F'
SignatureIsGIF ==
    Len(bytes) >= 3 /\ bytes[1] = 71 /\ bytes[2] = 73 /\ bytes[3] = 70

\* parseGif has not been called, or threw at its signature check
BeforeBlocks == gifPc \in {"idle", "file", "scan", "checked", "thrown"}

\* isAnimatedGif has returned
Checked == gifPc \notin {"idle", "file", "scan"}

\* parseGif's block loop has ended
Walked == gifPc \in {"canvas", "compose", "returned"}

\* the blocks of the file that are image descriptors
Descriptors(f) == {j \in 1..Len(f.blocks) : f.blocks[j][1] = 44}

\* the offset of the block-type byte of block j
RECURSIVE BlockOffset(_, _)
BlockOffset(f, j) ==
    IF j = 1 THEN Len(f.head) ELSE BlockOffset(f, j - 1) + Len(f.blocks[j - 1])

\* the file's second image descriptor
SecondDescriptor(f) ==
    CHOOSE j \in Descriptors(f) : Cardinality({d \in Descriptors(f) : d < j}) = 1

\* the buffer is a whole file of extensions and images ended by the trailer
WellFormed ==
    /\ SignatureIsGIF
    /\ bytes = BytesOf(file)
    /\ file.end = Trailer
    /\ \A j \in 1..Len(file.blocks) : file.blocks[j][1] \in {33, 44}

\* C12: if the buffer does not begin with 'GIF', parseGif throws before it
\* reads any block and holds no frame, and isAnimatedGif returns false; a
\* buffer that begins with 'GIF' is never rejected, whatever its version bytes.
C12_SignatureCheck ==
    /\ ~SignatureIsGIF =>
         /\ BeforeBlocks
         /\ Checked => ~animated
         /\ frames = <<>> /\ resultFrames = <<>>
    /\ SignatureIsGIF => gifPc # "thrown"

\* parseGif has thrown on a buffer that holds a full header
C12_Witness ==
    gifPc = "thrown" /\ Len(bytes) > 13 /\ ~SignatureIsGIF /\ ~animated

\* C13: on every buffer that begins with 'GIF', truncated ones included,
\* parseGif's block loop ends and parseGif returns.
C13_WalkTerminates == (gifPc = "file" /\ SignatureIsGIF) ~> (gifPc = "returned")

\* C14: on a well-formed file isAnimatedGif returns true exactly when the file
\* holds two or more image descriptors, and then it has read no further than
\* the second descriptor's block-type byte; on every buffer it returns.
C14_Animated ==
    /\ [](gifPc = "checked" /\ WellFormed =>
            /\ animated <=> Cardinality(Descriptors(file)) >= 2
            /\ animated => offset = BlockOffset(file, SecondDescriptor(file)) + 1)
    /\ (gifPc = "file") ~> Checked

\* isAnimatedGif has returned true on a well-formed file that holds a third
\* descriptor and an extension before the second
C14_Witness ==
    /\ gifPc = "checked"
    /\ WellFormed
    /\ animated
    /\ Cardinality(Descriptors(file)) = 3
    /\ \E j \in 1..Len(file.blocks) :
          j < SecondDescriptor(file) /\ file.blocks[j][1] = 33

\* C15: on every buffer that begins with 'GIF' and on which parseGif's block
\* loop ends, isAnimatedGif returned true exactly when the loop recorded two
\* or more image descriptors.
C15_SameWalk == SignatureIsGIF /\ Walked => (animated <=> Len(frames) >= 2)

\* C16: parseGif never returns successfully with an empty list of frames.
C16_NoEmptySuccess == gifPc = "returned" => resultFrames # <<>>

\* the j-th image descriptor of the file (block 0 when j = 0)
Descriptor(f, j) ==
    IF j = 0 THEN 0
    ELSE CHOOSE d \in Descriptors(f) : Cardinality({e \in Descriptors(f) : e < d}) = j - 1

\* the graphics control extensions between the previous image and the j-th
ControlsBefore(f, j) ==
    {g \in (Descriptor(f, j - 1) + 1)..(Descriptor(f, j) - 1) :
        f.blocks[g][1] = 33 /\ f.blocks[g][2] = 249}

\* the delay field of the last of them
DeclaredDelay(f, j) ==
    LET g == CHOOSE c \in ControlsBefore(f, j) : \A e \in ControlsBefore(f, j) : e <= c
    IN  f.blocks[g][5] + 256 * f.blocks[g][6]

\* the frame records that have a colour table, in order
Shown == SelectSeq(frames, LAMBDA f : f.localColorTable # null \/ globalColorTable # null)

\* C17: each frame's delay is ten times the delay field of the last graphics
\* control extension between the previous image and its own, and 100 when
\* there is none or the field is 0; the output frames carry these delays, and
\* every one of them is at least 1.
C17_Delay ==
    gifPc = "returned" /\ bytes = BytesOf(file) =>
        /\ \A j \in 1..Len(frames) :
              frames[j].delay =
                 IF ControlsBefore(file, j) = {} \/ DeclaredDelay(file, j) = 0
                 THEN 100 ELSE 10 * DeclaredDelay(file, j)
        /\ Len(resultFrames) = Len(Shown)
        /\ \A j \in 1..Len(resultFrames) :
              resultFrames[j].delay = Shown[j].delay /\ resultFrames[j].delay >= 1

\* three frames returned: one after a delay field 258, one after a delay
\* field 0, and one without a graphics control extension after them
C17_Witness ==
    /\ gifPc = "returned"
    /\ bytes = BytesOf(file)
    /\ Len(resultFrames) = 3
    /\ resultFrames[1].delay = 2580
    /\ ControlsBefore(file, 2) # {} /\ DeclaredDelay(file, 2) = 0
    /\ ControlsBefore(file, 3) = {}

\* the canvas the next frame is drawn on
Base == IF previousImageData # null THEN previousImageData.data ELSE canvas

\* the column and the row of canvas pixel p
Column(p) == (p - 1) % width
Row(p) == (p - 1) \div width

\* canvas pixel p lies in the frame's rectangle
InRectangle(frame, p) ==
    /\ Column(p) \in frame.left..(frame.left + frame.frameWidth - 1)
    /\ Row(p) \in frame.top..(frame.top + frame.frameHeight - 1)

\* the frame's palette index at canvas pixel p
IndexAt(frame, p) ==
    frame.data[(Row(p) - frame.top) * frame.frameWidth + (Column(p) - frame.left) + 1]

\* canvas pixel p is under a pixel of the frame that is not transparent
Covered(frame, p) == InRectangle(frame, p) /\ IndexAt(frame, p) # frame.transparentIndex

\* the colour the frame gives canvas pixel p
ColourAt(frame, p) ==
    LET table == IF frame.localColorTable # null
                 THEN frame.localColorTable.entries ELSE globalColorTable.entries
        at == 3 * IndexAt(frame, p)
    IN  <<Stored(At(table, at)), Stored(At(table, at + 1)), Stored(At(table, at + 2)), 255>>

\* a frame has just been drawn
Drew == resultFrames' # resultFrames

\* C18: after a frame with disposal method 2, the canvas the next frame is
\* drawn on has the frame's rectangle, clipped to the canvas, transparent, and
\* every other pixel as it was.
C18_Disposal2 ==
    [][Drew /\ frames[frameIndex].disposalMethod = 2 =>
          \A p \in 1..(width * height) :
             Base'[p] =
                IF InRectangle(frames[frameIndex], p) THEN <<0, 0, 0, 0>>
                ELSE Base[p]]_vars

\* a frame with disposal method 2 that reaches beyond the canvas has been
\* drawn over an earlier frame, part of which remains outside its rectangle,
\* and another frame follows
C18_Witness ==
    /\ gifPc = "compose"
    /\ frameIndex \in 3..Len(frames)
    /\ frames[frameIndex - 1].disposalMethod = 2
    /\ frames[frameIndex - 1].left + frames[frameIndex - 1].frameWidth > width
    /\ \E p \in 1..(width * height) :
          InRectangle(frames[frameIndex - 1], p) /\ Base[p] = <<0, 0, 0, 0>>
    /\ \E p \in 1..(width * height) :
          ~InRectangle(frames[frameIndex - 1], p) /\ Base[p][4] = 255

\* C19: the buffer output for frame k is the canvas right after frame k was
\* drawn: every pixel of frame k that is not transparent and lies in the
\* canvas has its colour-table colour in output k, whatever the disposal
\* method.
C19_OutputIsPainted ==
    globalColorTable # null =>
        \A j \in 1..Len(resultFrames) :
           \A p \in 1..(width * height) :
              Covered(frames[j], p) =>
                 resultFrames[j].imageData.data[p] = ColourAt(frames[j], p)

\* C20: after a frame with disposal method 3, the canvas the next frame is
\* drawn on is the canvas the frame itself was drawn on.
C20_Disposal3 ==
    [][Drew /\ frames[frameIndex].disposalMethod = 3 => Base' = Base]_vars

\* the packed byte and the transparent colour index of the last graphics
\* control extension before the j-th image
DeclaredControl(f, j) ==
    LET g == CHOOSE c \in ControlsBefore(f, j) : \A e \in ControlsBefore(f, j) : e <= c
    IN  [packed |-> f.blocks[g][4], index |-> f.blocks[g][7]]

\* the j-th image of the file declares a transparent colour
DeclaresTransparency(f, j) ==
    ControlsBefore(f, j) # {} /\ DeclaredControl(f, j).packed % 2 = 1

\* C21: the drawing loops leave every canvas pixel under a transparent pixel of
\* the frame, or under no pixel of it, as it was, and give every other pixel
\* the colour of the frame's index in the local colour table if there is one,
\* else in the global one, with alpha 255; a frame whose graphics control
\* extension does not set the transparency flag, or that has none, has no
\* transparent index, so that none of its pixels is skipped.
C21_Painting ==
    /\ [][Drew =>
            \A p \in 1..(width * height) :
               frameImageData'[p] =
                  IF Covered(frames[frameIndex], p)
                  THEN ColourAt(frames[frameIndex], p)
                  ELSE Base[p]]_vars
    /\ [](gifPc = "returned" /\ bytes = BytesOf(file) =>
            \A j \in 1..Len(frames) :
               /\ ~DeclaresTransparency(file, j) =>
                     /\ frames[j].transparentIndex = -1
                     /\ \A p \in 1..(width * height) :
                           InRectangle(frames[j], p) => Covered(frames[j], p)
               /\ DeclaresTransparency(file, j) =>
                     frames[j].transparentIndex = DeclaredControl(file, j).index)

\* a frame with a transparent pixel has been drawn over an opaque pixel of an
\* earlier frame, which it left, next to a pixel that it painted
C21_Witness ==
    /\ gifPc = "compose"
    /\ frameIndex > 2
    /\ LET frame == frames[frameIndex - 1]
       IN  /\ frame.transparentIndex # -1
           /\ \E p \in 1..(width * height) :
                 /\ InRectangle(frame, p) /\ ~Covered(frame, p)
                 /\ frameImageData[p][4] = 255
                 /\ frameImageData[p] # ColourAt(frame, p)
           /\ \E p \in 1..(width * height) :
                 Covered(frame, p) /\ frameImageData[p] = ColourAt(frame, p)

(***************************************************************************)
(* a GIF LZW encoder, and the calls of decompressLZW                       *)
(***************************************************************************)
\* the table holds the sequence w
Known(codeTable, w) == \E c \in 1..Len(codeTable) : codeTable[c] = w

\* the code of the sequence w
CodeOf(codeTable, w) == (CHOOSE c \in 1..Len(codeTable) : codeTable[c] = w) - 1

\* the width of the code after one written at width codeSize: it grows when
\* the next free code does not fit in codeSize bits
WidthAfter(codeTable, codeSize) ==
    IF Len(codeTable) > (2 ^ codeSize) - 1 /\ codeSize < 12 THEN codeSize + 1 ELSE codeSize

\* the codes for the pixels from the j-th on, w being the sequence matched so
\* far, each code with the width it is written at; the end code comes last
RECURSIVE EncodeFrom(_, _, _, _, _, _)
EncodeFrom(pixels, j, w, codeTable, codeSize, minCodeSize) ==
    IF j > Len(pixels)
    THEN << <<CodeOf(codeTable, w), codeSize>>,
            <<(2 ^ minCodeSize) + 1, WidthAfter(codeTable, codeSize)>> >>
    ELSE IF Known(codeTable, Append(w, pixels[j]))
    THEN EncodeFrom(pixels, j + 1, Append(w, pixels[j]), codeTable, codeSize, minCodeSize)
    ELSE << <<CodeOf(codeTable, w), codeSize>> >>
            \o EncodeFrom(pixels, j + 1, <<pixels[j]>>,
                          IF Len(codeTable) < 4096
                          THEN Append(codeTable, Append(w, pixels[j])) ELSE codeTable,
                          WidthAfter(codeTable, codeSize), minCodeSize)

\* clear code, the codes of the pixels, end code
EncodeCodes(pixels, minCodeSize) ==
    << <<2 ^ minCodeSize, minCodeSize + 1>> >>
        \o (IF pixels = <<>>
            THEN << <<(2 ^ minCodeSize) + 1, minCodeSize + 1>> >>
            ELSE EncodeFrom(pixels, 2, <<pixels[1]>>, InitialTable(minCodeSize),
                            minCodeSize + 1, minCodeSize))

\* the codes packed into bytes, lowest bits first; held are the count bits not
\* yet written
RECURSIVE PackFrom(_, _, _)
PackFrom(codes, held, count) ==
    IF count >= 8
    THEN <<held % 256>> \o PackFrom(codes, held \div 256, count - 8)
    ELSE IF codes = <<>>
    THEN IF count > 0 THEN <<held>> ELSE <<>>
    ELSE PackFrom(Tail(codes), held + Head(codes)[1] * (2 ^ count), count + Head(codes)[2])

compressLZW(pixels, minCodeSize) == PackFrom(EncodeCodes(pixels, minCodeSize), 0, 0)

\* the longest pixel sequence of which every value is tried
MaxRun == 4

\* sequences that make the code width grow twice, with repeats
LongRuns ==
    { [t \in 1..14 |-> 0],
      [t \in 1..14 |-> t % 4],
      [t \in 1..14 |-> (t * t) % 3],
      <<0, 1, 0, 1, 0, 1, 0, 2, 2, 2, 2, 3, 3, 0>> }

\* a call of decompressLZW on the encoding of a pixel sequence
Encoded(pixels, minCodeSize) ==
    [encoded |-> TRUE,
     pixels |-> pixels,
     data |-> compressLZW(pixels, minCodeSize),
     minCodeSize |-> minCodeSize,
     pixelCount |-> Len(pixels)]

EncodedStreams ==
    { Encoded(pixels, 2) : pixels \in Seqs(0..3, MaxRun) \cup LongRuns }
        \cup { Encoded(pixels, 1) : pixels \in Seqs(0..1, MaxRun) }
        \cup { Encoded(pixels, 3) : pixels \in Seqs({0, 7}, MaxRun) \cup LongRuns }

\* the longest byte stream of which every value is tried
MaxData == 4

\* the bytes of those streams: with 3-bit codes 36 is two clear codes, 45 two
\* end codes, 62 the codes 6 and 7
RawBytes == {0, 36, 45, 62, 255}

\* the minimum code sizes and the pixel counts they are decoded with
RawCodeSizes == {0, 2, 31, 32}
PixelCounts == {0, 1, 3}

\* a call of decompressLZW on bytes that no encoder wrote
RawStreams ==
    { [encoded |-> FALSE, pixels |-> <<>>, data |-> bs,
       minCodeSize |-> m, pixelCount |-> n] :
        bs \in Seqs(RawBytes, MaxData), m \in RawCodeSizes, n \in PixelCounts }

\* a call on an encoding with a pixel count other than the number of pixels
\* encoded
MiscountedStreams ==
    { [encoded |-> FALSE, pixels |-> <<>>, data |-> compressLZW(pixels, 2),
       minCodeSize |-> 2, pixelCount |-> n] :
        pixels \in Seqs(0..1, MaxRun) \cup LongRuns, n \in PixelCounts \cup {16} }

\* a call on a stream that fills the table: 4091 codes 0 at widths growing
\* from 3 to 12 bits, then with 12 bits the codes 4095, 1, 2, 4095 and the
\* end code; and one with minimum code size 11, whose codes 1, 2, 2050, 2051
\* and the end code 2049 have 12 bits from the start
FullTableStreams ==
    { [encoded |-> FALSE, pixels |-> <<>>,
       data |-> Zeros(5631) \o <<254, 63, 0, 4, 224, 255, 11, 0>>,
       minCodeSize |-> 2, pixelCount |-> 4100],
      [encoded |-> FALSE, pixels |-> <<>>,
       data |-> <<1, 32, 0, 2, 56, 128, 1, 8>>,
       minCodeSize |-> 11, pixelCount |-> 8] }

\* calls on streams with a clear code after entries were added, minimum code
\* size 2: the codes 4, 1, 1, 6, 4, 2, 2, 6, 5; the codes 4, 1, 1, 6, 4, 6, 5;
\* the codes 1, 1, 6, 4, 4, 3, 5
ClearStreams ==
    { [encoded |-> FALSE, pixels |-> <<>>, data |-> bs,
       minCodeSize |-> 2, pixelCount |-> 8] :
        bs \in {<<76, 76, 146, 11>>, <<76, 76, 46>>, <<137, 137, 43>>} }

\* calls on streams that end inside a code, minimum code size 2: the codes 1,
\* 0 and two bits of a third; the same with other bits; the first three bytes
\* of the four that hold 4, 1, 1, 6, 4, 2, 2, 6, 5
CutStreams ==
    { [encoded |-> FALSE, pixels |-> <<>>, data |-> bs,
       minCodeSize |-> 2, pixelCount |-> n] :
        bs \in {<<65>>, <<193>>, <<1>>, <<76, 76, 146>>}, n \in {4, 8} }

Streams ==
    EncodedStreams \cup RawStreams \cup MiscountedStreams \cup FullTableStreams
        \cup ClearStreams \cup CutStreams

InitLZW == NoDivination /\ NoFile /\ NoStream /\ NoHistory /\ NoWeave

\* what a call of decompressLZW leaves alone
lzwFrame == <<divinationVars, absent, gifVars, storeVars, weaveVars>>

\* decompressLZW is called: its locals before the loop
CallDecompress ==
    /\ lzwPc = "idle"
    /\ \E s \in Streams :
          /\ stream' = s
          /\ decoder' = LZWStart(s.minCodeSize, s.pixelCount)
    /\ lzwPc' = "loop"
    /\ UNCHANGED lzwFrame

\* while (outputIndex < pixelCount && dataIndex <= data.length)
LoopTest ==
    /\ ~decoder.stopped
    /\ decoder.outputIndex < stream.pixelCount
    /\ decoder.dataIndex <= Len(stream.data)

\* the locals after a turn: bitCount is negative only after the data was used
\* up, when readCode's loop takes no byte any more and what is left to read of
\* it is its sign, so that -1 stands for every negative count and a loop that
\* never ends has finitely many states
AfterTurn(st, data) ==
    IF st.bitCount < 0 THEN [st EXCEPT !.bitCount = -1] ELSE st

\* the test holds: into the body of the loop
EnterLoop ==
    /\ lzwPc = "loop"
    /\ LoopTest
    /\ lzwPc' = "turn"
    /\ UNCHANGED <<stream, decoder, lzwFrame>>

\* the body of the loop, or the part of it before continue or break
LoopTurn ==
    /\ lzwPc = "turn"
    /\ \E read \in {readCode(decoder, stream.data)} :
          \E next \in {LZWStep(read, stream.minCodeSize, stream.pixelCount)} :
             decoder' = AfterTurn(next, stream.data)
    /\ lzwPc' = "loop"
    /\ UNCHANGED <<stream, lzwFrame>>

\* the test fails, or the loop was left by break: return output
ReturnOutput ==
    /\ lzwPc = "loop"
    /\ ~LoopTest
    /\ lzwPc' = "returned"
    /\ UNCHANGED <<stream, decoder, lzwFrame>>

NextLZW == CallDecompress \/ EnterLoop \/ LoopTurn \/ ReturnOutput

SpecLZW == InitLZW /\ [][NextLZW]_vars /\ WF_vars(NextLZW)

\* the turn just taken read the code that is not yet in the table
SelfReferential ==
    /\ decoder.prevCode = decoder.code
    /\ decoder.code = decoder.nextCode - 1
    /\ Len(Entry(decoder.codeTable, decoder.code)) >= 2

C23_Terminates ==
    /\ [](lzwPc # "idle" =>
            /\ Len(decoder.output) = stream.pixelCount
            /\ decoder.outputIndex <= stream.pixelCount)
    /\ (lzwPc = "loop") ~> (lzwPc = "returned")

(***************************************************************************)
(* the values the stalk divisions give                                     *)
(***************************************************************************)
\* draws that give every left pile of every division: u = ceil(t * 2^16 / 47)
\* / 2^16 for t in 0..46, so that floor(u * 47) = t, and every interval of
\* width 1/43, 1/39, 1/35 or 1/31 in [0, 1) holds one of them
StalkDraws == {<<(t * Half + 46) \div 47, 0>> : t \in 0..46}

\* C24: each of the line values 6, 7, 8 and 9 is returned by
\* simulateYarrowStalkDivision for some three draws.
C24_AllValuesPossible ==
    method = "yarrow" =>
        \A value \in LineValue :
           \E u1 \in StalkDraws, u2 \in StalkDraws, u3 \in StalkDraws :
              simulateYarrowStalkDivision(<<u1, u2, u3>>) = value

(***************************************************************************)
(* the history store (src/utils/storage.ts)                                *)
(***************************************************************************)
STORAGE_VERSION == 1
MAX_RECORDS == 100

\* the most records added in a run
MaxAdds == 102

\* getRecords: the records of the item, none if it is absent or of another
\* version
getRecords(item) ==
    IF item = null THEN <<>>
    ELSE IF item.version # STORAGE_VERSION THEN <<>>
    ELSE item.records

\* saveRecords: the item written
saveRecords(records) == [version |-> STORAGE_VERSION, records |-> records]

\* the limit enforced at one record fewer
RECURSIVE EnforceLimitBelow(_)
EnforceLimitBelow(records) ==
    IF Len(records) >= MAX_RECORDS
    THEN EnforceLimitBelow(SubSeq(records, 1, Len(records) - 1))
    ELSE records

\* while (records.length > MAX_RECORDS) records.pop()
RECURSIVE EnforceLimit(_)
EnforceLimit(records) ==
    IF Len(records) > MAX_RECORDS
    THEN EnforceLimit(SubSeq(records, 1, Len(records) - 1))
    ELSE records

\* records.findIndex((r) => r.id === id), from 1; 0 if there is none
FindIndex(records, id) ==
    IF \E at \in 1..Len(records) : records[at].id = id
    THEN CHOOSE at \in 1..Len(records) :
            records[at].id = id /\ \A before \in 1..(at - 1) : records[before].id # id
    ELSE 0

\* records.splice(index, 1)
Splice(records, index) ==
    SubSeq(records, 1, index - 1) \o SubSeq(records, index + 1, Len(records))

\* the ids deleteRecord is called with: 0 is the id of no record
DeleteIds == {0, 1, 2, 101}

InitStore == NoDivination /\ NoFile /\ NoStream /\ NoHistory /\ NoWeave

\* what the store's operations leave alone
storeFrame == <<divinationVars, absent, gifVars, lzwVars, weaveVars>>

\* addRecord: the id is a fresh one, the n-th id generated being n; the other
\* fields of the record are carried along unread
addRecord ==
    /\ idsGenerated < MaxAdds
    /\ LET newRecord == [id |-> idsGenerated + 1]
           records == <<newRecord>> \o getRecords(storage)
       IN  /\ storage' = saveRecords(EnforceLimit(records))
           /\ answer' = [op |-> "addRecord", id |-> newRecord.id, ok |-> TRUE]
    /\ idsGenerated' = idsGenerated + 1
    /\ UNCHANGED storeFrame

\* deleteRecord(id)
deleteRecord ==
    /\ \E id \in DeleteIds :
          LET records == getRecords(storage)
              index == FindIndex(records, id)
          IN  IF index = 0
              THEN /\ answer' = [op |-> "deleteRecord", id |-> id, ok |-> FALSE]
                   /\ UNCHANGED storage
              ELSE /\ storage' = saveRecords(Splice(records, index))
                   /\ answer' = [op |-> "deleteRecord", id |-> id, ok |-> TRUE]
    /\ UNCHANGED <<idsGenerated, storeFrame>>

\* clearAllRecords: the item is removed
clearAllRecords ==
    /\ storage' = null
    /\ answer' = [op |-> "clearAllRecords", id |-> 0, ok |-> TRUE]
    /\ UNCHANGED <<idsGenerated, storeFrame>>

NextStore == addRecord \/ deleteRecord \/ clearAllRecords

SpecStore == InitStore /\ [][NextStore]_vars

\* the ids of the records stored, in the order stored
StoredIds == [at \in 1..Len(getRecords(storage)) |-> getRecords(storage)[at].id]

\* C25: the store holds at most 100 records, newest first; addRecord puts the
\* new record first and, if 100 were stored, removes the last one (the oldest)
\* and no other; deleteRecord with an id that no stored record has returns
\* false and leaves the store as it was.
C25_History ==
    /\ [](/\ Len(StoredIds) <= 100
          /\ \A at \in 1..(Len(StoredIds) - 1) : StoredIds[at] > StoredIds[at + 1])
    /\ [][idsGenerated' # idsGenerated =>
            getRecords(storage)' =
               <<getRecords(storage)'[1]>>
                  \o (IF Len(StoredIds) = 100
                      THEN SubSeq(getRecords(storage), 1, 99)
                      ELSE getRecords(storage))]_vars
    /\ [][/\ answer'.op = "deleteRecord"
          /\ answer' # answer
          /\ \A at \in 1..Len(StoredIds) : StoredIds[at] # answer'.id
          => ~answer'.ok /\ storage' = storage]_vars

\* a record was added while 100 were stored, for the second time: the two
\* oldest records are gone and the other 100 are in place
C25_Witness ==
    /\ answer.op = "addRecord"
    /\ Len(StoredIds) = 100
    /\ StoredIds[1] = 102
    /\ StoredIds[100] = 3

\* C26: in the block loop of parseGif, a block-type byte other than 0x21,
\* 0x2C and 0x3B ends the loop: the walk goes on to the compositor with the
\* frames parsed so far, and nothing is thrown.
C26_OtherByteTerminates ==
    [][/\ gifPc = "blocks"
       /\ offset < Len(bytes)
       /\ At(bytes, offset) \notin {33, 44, 59}
       => gifPc' = "canvas" /\ frames' = frames]_vars

\* C27: what a graphics control extension declares applies to the next image
\* only. Emitting a frame record resets the delay to 100, the transparent
\* index to -1 and the disposal method to 0; a frame record carries the values
\* of the last graphics control extension between the previous image and its
\* own, and the defaults when there is none.
C27_ControlScope ==
    /\ [][Len(frames') > Len(frames) =>
            currentDelay' = 100 /\ transparentIndex' = -1 /\ disposalMethod' = 0]_vars
    /\ [](gifPc = "returned" /\ bytes = BytesOf(file) =>
            \A j \in 1..Len(frames) :
               IF ControlsBefore(file, j) = {}
               THEN /\ frames[j].disposalMethod = 0
                    /\ frames[j].transparentIndex = -1
                    /\ frames[j].delay = 100
               ELSE /\ frames[j].disposalMethod = (DeclaredControl(file, j).packed \div 4) % 8
                    /\ frames[j].transparentIndex =
                          IF DeclaresTransparency(file, j)
                          THEN DeclaredControl(file, j).index ELSE -1
                    /\ frames[j].delay =
                          IF DeclaredDelay(file, j) = 0 THEN 100
                          ELSE 10 * DeclaredDelay(file, j))

\* two frames returned: the first after an extension declaring disposal 1,
\* transparent index 1 and delay 5 and then one declaring disposal 2, no
\* transparency and delay 7; the second with no extension of its own
C27_Witness ==
    /\ gifPc = "returned"
    /\ bytes = BytesOf(file)
    /\ Len(frames) = 2
    /\ Cardinality(ControlsBefore(file, 1)) = 2
    /\ file.blocks[1] = GraphicsControl(1, TRUE, 5, 1)
    /\ frames[1].disposalMethod = 2
    /\ frames[1].transparentIndex = -1
    /\ frames[1].delay = 70
    /\ ControlsBefore(file, 2) = {}
    /\ frames[2].disposalMethod = 0

\* C28: in a call with a minimum code size of 1 to 11 the code width is at
\* most 12, nextCode at most 4096, and the table has entries at the indices
\* below nextCode only. A turn that reads a data code adds at most one entry;
\* the width grows by one if an entry was added, nextCode then exceeds the
\* mask and the width is below 12, and stays as it is otherwise. With 4096
\* entries the table stays as it is and codes are read with 12 bits.
C28_TableBounds ==
    /\ [](lzwPc # "idle" /\ stream.minCodeSize \in 1..11 =>
            /\ decoder.codeSize <= 12
            /\ decoder.codeMask = (2 ^ decoder.codeSize) - 1
            /\ decoder.nextCode <= 4096
            /\ Len(decoder.codeTable) = decoder.nextCode
            /\ decoder.nextCode = 4096 => decoder.codeSize = 12)
    /\ [][/\ lzwPc = "turn"
          /\ lzwPc' = "loop"
          /\ stream.minCodeSize \in 1..11
          /\ decoder'.code # 2 ^ stream.minCodeSize
          => /\ decoder'.nextCode \in {decoder.nextCode, decoder.nextCode + 1}
             /\ decoder'.codeSize =
                   IF /\ decoder'.nextCode = decoder.nextCode + 1
                      /\ decoder'.nextCode > decoder.codeMask
                      /\ decoder.codeSize < 12
                   THEN decoder.codeSize + 1 ELSE decoder.codeSize
             /\ decoder.nextCode = 4096 =>
                   decoder'.codeTable = decoder.codeTable]_vars

\* a call with minimum code size 3 on an encoded stream has returned after
\* the width grew from 4 to 5 bits, when nextCode passed the mask 15
C28_Witness ==
    /\ lzwPc = "returned"
    /\ stream.encoded
    /\ stream.minCodeSize = 3
    /\ decoder.codeSize = 5
    /\ decoder.nextCode >= 16
    /\ decoder.output = stream.pixels

\* the turn just taken read the clear code
ClearTurn ==
    /\ lzwPc = "turn"
    /\ lzwPc' = "loop"
    /\ decoder'.code = ShiftOne(stream.minCodeSize)

\* the turn just taken read the end code
EndTurn ==
    /\ lzwPc = "turn"
    /\ lzwPc' = "loop"
    /\ decoder'.code # ShiftOne(stream.minCodeSize)
    /\ decoder'.code = ShiftOne(stream.minCodeSize) + 1

\* C29: a turn that reads the clear code leaves the decoder with the locals of
\* a decoder that has decoded nothing, but for the position in the stream and
\* the output written: the width is minCodeSize + 1, the mask 2^(minCodeSize +
\* 1) - 1, nextCode clearCode + 2, the table has the entries <<c>> for c below
\* clearCode and the two empty ones, and there is no previous code. The turn
\* after it adds no entry. A turn that reads the end code writes nothing, and
\* the call returns after it.
C29_ClearAndEnd ==
    /\ [][ClearTurn =>
            /\ decoder' =
                  [LZWStart(stream.minCodeSize, stream.pixelCount) EXCEPT
                      !.output = decoder.output,
                      !.outputIndex = decoder.outputIndex,
                      !.bits = decoder'.bits,
                      !.bitCount = decoder'.bitCount,
                      !.dataIndex = decoder'.dataIndex,
                      !.code = decoder'.code]
            /\ stream.minCodeSize \in 0..11 =>
                  /\ decoder'.codeSize = stream.minCodeSize + 1
                  /\ decoder'.codeMask = (2 ^ (stream.minCodeSize + 1)) - 1
                  /\ decoder'.nextCode = (2 ^ stream.minCodeSize) + 2
                  /\ decoder'.codeTable =
                        [c \in 1..((2 ^ stream.minCodeSize) + 2) |->
                            IF c <= 2 ^ stream.minCodeSize THEN <<c - 1>> ELSE <<>>]
                  /\ decoder'.prevCode = -1]_vars
    /\ [][lzwPc = "turn" /\ lzwPc' = "loop" /\ decoder.prevCode = -1 =>
            /\ decoder'.nextCode = decoder.nextCode
            /\ decoder'.codeTable = decoder.codeTable]_vars
    /\ [][EndTurn => decoder'.stopped /\ decoder'.output = decoder.output]_vars
    /\ [][lzwPc = "loop" /\ decoder.stopped =>
            lzwPc' = "returned" /\ decoder' = decoder]_vars

\* eight pixels were returned of which the last four were decoded after a
\* clear code that followed two added entries: the code 6 stood for <<1, 1>>
\* before it and stands for <<2, 2>> after it
C29_Witness ==
    /\ lzwPc = "returned"
    /\ stream.data = <<76, 76, 146, 11>>
    /\ decoder.output = <<1, 1, 1, 1, 2, 2, 2, 2>>
    /\ decoder.nextCode = 8

\* the turn just taken read a code that is neither the clear code, nor the
\* end code, nor the code of an entry, nor the next code after a previous one
InvalidTurn ==
    /\ lzwPc = "turn"
    /\ lzwPc' = "loop"
    /\ decoder'.code \notin {ShiftOne(stream.minCodeSize), ShiftOne(stream.minCodeSize) + 1}
    /\ \/ decoder'.code > decoder.nextCode
       \/ decoder'.code = decoder.nextCode /\ decoder.prevCode = -1

\* C30: a turn that reads a code above nextCode, or nextCode itself when there
\* is no previous code, ends the loop and writes nothing; the call returns an
\* output that holds the pixels written before and 0 from there on.
C30_InvalidCode ==
    /\ [][InvalidTurn =>
            /\ decoder'.stopped
            /\ decoder'.output = decoder.output
            /\ decoder'.outputIndex = decoder.outputIndex
            /\ decoder'.codeTable = decoder.codeTable]_vars
    /\ [](lzwPc = "returned" =>
            \A p \in (decoder.outputIndex + 1)..stream.pixelCount :
               decoder.output[p] = 0)
    /\ [][lzwPc = "loop" /\ lzwPc' = "returned" => decoder' = decoder]_vars

\* the call returned after the code 6 was read as the first code after a clear
\* code: four pixels written before it are kept, the other four are 0
C30_Witness ==
    /\ lzwPc = "returned"
    /\ stream.data = <<76, 76, 46>>
    /\ decoder.stopped
    /\ decoder.code = 6
    /\ decoder.nextCode = 6
    /\ decoder.prevCode = -1
    /\ decoder.outputIndex = 4
    /\ decoder.output = <<1, 1, 1, 1, 0, 0, 0, 0>>

\* the turn just taken read a code of which the data held only a part
PartialTurn ==
    /\ lzwPc = "turn"
    /\ lzwPc' = "loop"
    /\ decoder'.bitCount < 0

\* C31: when the data ends before pixelCount pixels were written, the pixels
\* returned are those of the codes the data held completely, and zeros: a
\* turn that reads a code of which only a part was in the data changes no
\* byte of the output.
C31_NoPixelFromPartialCode ==
    [][PartialTurn => decoder'.output = decoder.output]_vars

(***************************************************************************)
(* deinterlace, row by row                                                 *)
(***************************************************************************)
\* the widest and the highest frame deinterlaced
MaxColumns == 3
MaxRows == 17

\* the passes with a fourth pass that takes every fourth row
InterlacePassesOfFour ==
    << [start |-> 0, step |-> 8], [start |-> 4, step |-> 8],
       [start |-> 2, step |-> 4], [start |-> 1, step |-> 4] >>

\* const passes
InterlacePasses ==
    << [start |-> 0, step |-> 8], [start |-> 4, step |-> 8],
       [start |-> 2, step |-> 4], [start |-> 1, step |-> 2] >>

\* the frames deinterlaced: width * height pixels, all different, as
\* decompressLZW returns pixelCount = frameWidth * frameHeight of them
Interlaced ==
    { [pixels |-> [t \in 1..(w * h) |-> t], width |-> w, height |-> h] :
        w \in 1..MaxColumns, h \in 1..MaxRows }

InitWeave == NoDivination /\ NoFile /\ NoStream /\ NoHistory /\ NoWeave

\* what a call of deinterlace leaves alone
weaveFrame == <<divinationVars, absent, gifVars, lzwVars, storeVars>>

\* deinterlace is called: result is new Uint8Array(pixels.length); rows and
\* writes record the rows visited and how often each byte of result was
\* written
CallDeinterlace ==
    /\ weavePc = "idle"
    /\ \E frame \in Interlaced :
          weave' = [pixels |-> frame.pixels,
                    width |-> frame.width,
                    height |-> frame.height,
                    result |-> Zeros(Len(frame.pixels)),
                    srcIndex |-> 0,
                    pass |-> 1,
                    y |-> InterlacePasses[1].start,
                    rows |-> <<>>,
                    writes |-> Zeros(Len(frame.pixels))]
    /\ weavePc' = "rows"
    /\ UNCHANGED weaveFrame

\* one turn of the loop over y: the loop over x copies a row
CopyRow ==
    /\ weavePc = "rows"
    /\ weave.pass <= Len(InterlacePasses)
    /\ weave.y < weave.height
    /\ weave' =
          [weave EXCEPT
              !.result = [p \in 1..Len(@) |->
                            IF (p - 1) \div weave.width = weave.y
                            THEN weave.pixels[weave.srcIndex + ((p - 1) % weave.width) + 1]
                            ELSE @[p]],
              !.writes = [p \in 1..Len(@) |->
                            IF (p - 1) \div weave.width = weave.y THEN @[p] + 1 ELSE @[p]],
              !.srcIndex = @ + weave.width,
              !.y = @ + InterlacePasses[weave.pass].step,
              !.rows = Append(@, weave.y)]
    /\ UNCHANGED <<weavePc, weaveFrame>>

\* the loop over y ends: on to the next pass
NextPass ==
    /\ weavePc = "rows"
    /\ weave.pass <= Len(InterlacePasses)
    /\ ~(weave.y < weave.height)
    /\ weave' =
          [weave EXCEPT
              !.pass = @ + 1,
              !.y = IF weave.pass < Len(InterlacePasses)
                    THEN InterlacePasses[weave.pass + 1].start ELSE @]
    /\ UNCHANGED <<weavePc, weaveFrame>>

\* return result
ReturnResult ==
    /\ weavePc = "rows"
    /\ weave.pass > Len(InterlacePasses)
    /\ weavePc' = "returned"
    /\ UNCHANGED <<weave, weaveFrame>>

NextWeave == CallDeinterlace \/ CopyRow \/ NextPass \/ ReturnResult

SpecWeave == InitWeave /\ [][NextWeave]_vars

\* the elements of a set of numbers in ascending order
RECURSIVE Ascending(_)
Ascending(S) ==
    IF S = {} THEN <<>>
    ELSE LET least == CHOOSE a \in S : \A b \in S : a <= b
         IN  <<least>> \o Ascending(S \ {least})

\* the rows of a frame in the order in which an interlaced file stores them
StoredOrder(rowCount) ==
    Ascending({r \in 0..(rowCount - 1) : r % 8 = 0})
        \o Ascending({r \in 0..(rowCount - 1) : r % 8 = 4})
        \o Ascending({r \in 0..(rowCount - 1) : r % 4 = 2})
        \o Ascending({r \in 0..(rowCount - 1) : r % 2 = 1})

\* C32: deinterlace permutes rows. The four passes visit every row of the
\* frame once; width * height source bytes are read, in order; every byte of
\* the result is written once; and the k-th row of the source is the row of
\* the result that is k-th in the order rows 0, 8, 16, ..; 4, 12, ..; 2, 6,
\* ..; 1, 3, ...
C32_RowPermutation ==
    weavePc = "returned" =>
        /\ Len(weave.rows) = weave.height
        /\ \A r \in 0..(weave.height - 1) :
              Cardinality({t \in 1..Len(weave.rows) : weave.rows[t] = r}) = 1
        /\ weave.rows = StoredOrder(weave.height)
        /\ weave.srcIndex = weave.width * weave.height
        /\ \A p \in 1..Len(weave.writes) : weave.writes[p] = 1
        /\ \A t \in 1..weave.height : \A x \in 0..(weave.width - 1) :
              weave.result[weave.rows[t] * weave.width + x + 1] =
                 weave.pixels[(t - 1) * weave.width + x + 1]
        /\ weave.result = deinterlace(weave.pixels, weave.width, weave.height)

\* a frame of 17 rows and 3 columns was deinterlaced: the first pass took
\* three rows, and the second source row is row 8 of the result
C32_Witness ==
    /\ weavePc = "returned"
    /\ weave.height = 17
    /\ weave.width = 3
    /\ weave.rows[3] = 16
    /\ weave.rows[4] = 4
    /\ weave.result[8 * 3 + 1] = weave.pixels[3 + 1]

(***************************************************************************)
(* the draws of a call                                                     *)
(***************************************************************************)
\* the first n values that the generator with this state returns
RECURSIVE DrawsFrom(_, _)
DrawsFrom(state, n) ==
    IF n = 0 THEN <<>>
    ELSE CHOOSE us \in {<<d.value>> \o DrawsFrom(d.seed, n - 1) : d \in {random(state)}} : TRUE

\* the draws one line of a method takes
DrawsPerLine(m) == IF m = "image" THEN 1 ELSE 3

\* the value of line t (from 1) of a method, given the three draws that are
\* the line's (the image method reads the first only)
LineValueOf(m, img, t, us) ==
    IF m = "image" THEN ImageLineValue(BandBrightness(img, t - 1), us[1])
    ELSE IF m = "coins" THEN CoinsLineValue(BandBrightness(img, t - 1), us)
    ELSE simulateYarrowStalkDivision(us)

\* C33: a call takes its draws from one generator, seeded with the hash of
\* the buffer: after i lines the image method has drawn i times and the coin
\* and yarrow methods 3 * i times, the k-th draw being the k-th value of the
\* generator; line t is made from the draws 3t - 2, 3t - 1 and 3t (the image
\* method: from draw t); a call that has returned has drawn 6 or 18 times.
C33_DrawOrder ==
    pc \in {"loop", "done", "read"} =>
        /\ Len(lines) = i
        /\ Len(drawn) = i * DrawsPerLine(method)
        /\ drawn = DrawsFrom(createSeededRandom(hashImageData(image)), Len(drawn))
        /\ \A t \in 1..i :
              lines[t] =
                 createLineState(
                    LineValueOf(method, image, t,
                       IF method = "image" THEN <<drawn[t], drawn[t], drawn[t]>>
                       ELSE SubSeq(drawn, 3 * t - 2, 3 * t)))
        /\ pc \in {"done", "read"} =>
              Len(drawn) = (IF method = "image" THEN 6 ELSE 18)

\* a call of the yarrow method has returned after 18 draws, of which the
\* first and the fourth differ
C33_Witness ==
    /\ pc = "done"
    /\ method = "yarrow"
    /\ Len(drawn) = 18
    /\ drawn[1] # drawn[4]

(***************************************************************************)
(* the yarrow method on buffers of more than one sampled byte, called on a *)
(* second buffer that has the same sampled bytes                           *)
(***************************************************************************)
\* the most bytes the hash samples of a buffer
MaxSamples == 7

\* the values of the sampled bytes
SampleBytes == {0, 200, 255}

\* the sampled bytes of a buffer, in order: of the n bytes the first ones are
\* equal to the last, the three last ones take every value
SampleSets(n) ==
    {sampled \in [1..n -> SampleBytes] : \A t \in 1..(n - 3) : sampled[t] = sampled[n]}

\* the lengths of the buffers of n sampled bytes
LengthsFor(n) == IF n = 1 THEN {4, 400} ELSE {400 * (n - 1) + 4}

\* the bytes that the hash does not sample, in two ways
Filler(way, k) == IF way = 1 THEN 7 ELSE (k * 37) % 256

\* the buffers: none, and those of 1, 2 and MaxSamples sampled bytes, as one
\* row and as one column of pixels
LongImages ==
    {[width |-> 0, height |-> 0, data |-> <<>>]}
      \cup UNION {UNION {UNION {
              { [width |-> shape[1], height |-> shape[2],
                 data |-> [k \in 1..len |->
                             IF (k - 1) % 400 = 0 THEN sampled[((k - 1) \div 400) + 1]
                             ELSE Filler(way, k)]] :
                  shape \in {<<1, len \div 4>>, <<len \div 4, 1>>}, way \in {1, 2} } :
              len \in LengthsFor(n)} :
              sampled \in SampleSets(n)} :
              n \in {1, 2, MaxSamples}}

\* the bytes at the indices 0, 400, 800, ... of a buffer
Sampled(data) == [t \in 1..((Len(data) + 399) \div 400) |-> data[400 * (t - 1) + 1]]

\* two buffers of one length with the same sampled bytes
Alike(a, b) == Len(a.data) = Len(b.data) /\ Sampled(a.data) = Sampled(b.data)

InitHash ==
    /\ CompleteCatalogue
    /\ image \in LongImages
    /\ method = "yarrow"
    /\ pc = "idle"
    /\ seed = <<0, 0>>
    /\ i = 0
    /\ lines = <<>>
    /\ drawn = <<>>
    /\ result = null
    /\ interp = null
    /\ call = 1
    /\ prev = null
    /\ NoFile
    /\ NoStream
    /\ NoHistory
    /\ NoWeave

\* the method is called once more, on a buffer that is like the first
AgainAlike ==
    /\ pc = "read" /\ call = 1
    /\ \E other \in LongImages :
          /\ Alike(image, other)
          /\ image' = other
    /\ prev' = [result |-> result, drawn |-> drawn, image |-> image]
    /\ call' = 2
    /\ pc' = "idle"
    /\ UNCHANGED <<method, seed, i, lines, drawn, result, interp>>
    /\ UNCHANGED others

NextHash == Begin \/ YarrowLine \/ Return \/ Interpret \/ AgainAlike

SpecHash == InitHash /\ [][NextHash]_vars

\* h * 31 + byte, truncated to 32 bits, on a word <<high, low>>
TimesThirtyOnePlus(h, byte) ==
    LET low == h[2] * 31 + byte
        high == h[1] * 31 + (low \div (2 ^ 16))
    IN  <<high % (2 ^ 16), low % (2 ^ 16)>>

\* the fold of h <- h * 31 + byte over a sequence of bytes, from h = 0
RECURSIVE FoldThirtyOne(_)
FoldThirtyOne(sampled) ==
    IF sampled = <<>> THEN <<0, 0>>
    ELSE TimesThirtyOnePlus(FoldThirtyOne(SubSeq(sampled, 1, Len(sampled) - 1)),
                            sampled[Len(sampled)])

\* the absolute value of a word read as a signed 32-bit integer
Magnitude(h) ==
    IF h[1] < 2 ^ 15 THEN h
    ELSE IF h[2] = 0 THEN <<(2 ^ 16 - h[1]) % (2 ^ 16), 0>>
    ELSE <<2 ^ 16 - 1 - h[1], 2 ^ 16 - h[2]>>

\* C34: hashImageData is the absolute value of the fold h <- h * 31 + byte,
\* truncated to a signed 32-bit integer, over the bytes at the indices 0, 400,
\* 800, ... from h = 0; it lies between 0 and 2^31, is 0 for the empty
\* buffer, and is the seed the generator of the call starts from.
C34_Hash ==
    /\ hashImageData(image) = Magnitude(FoldThirtyOne(Sampled(image.data)))
    /\ hashImageData(image)[1] <= 2 ^ 15
    /\ hashImageData(image)[1] = 2 ^ 15 => hashImageData(image)[2] = 0
    /\ image.data = <<>> => hashImageData(image) = <<0, 0>>
    /\ pc = "loop" /\ i = 0 => seed = hashImageData(image)

\* a call has begun on a buffer of seven sampled bytes, not all equal, whose
\* truncated fold is negative
C34_Witness ==
    /\ pc = "loop"
    /\ i = 0
    /\ Len(Sampled(image.data)) = 7
    /\ Sampled(image.data)[6] # Sampled(image.data)[7]
    /\ FoldThirtyOne(Sampled(image.data))[1] >= 2 ^ 15
    /\ seed # FoldThirtyOne(Sampled(image.data))

\* C38: the result of the yarrow method depends on the buffer through its
\* sampled bytes only. A call on a buffer of the same length that has the same
\* bytes at the indices 0, 400, 800, ..., whatever its other bytes, its width
\* and its height, returns the same line values and the same primary and
\* transformed hexagram numbers.
C38_SampledBytesOnly ==
    call = 2 /\ Returned =>
        /\ ValuesOf(result.lines) = ValuesOf(prev.result.lines)
        /\ result.changingLines = prev.result.changingLines
        /\ result.primaryHexagram.number = prev.result.primaryHexagram.number
        /\ NumberOf(result.transformedHexagram)
             = NumberOf(prev.result.transformedHexagram)

\* the second call has returned, on a buffer of seven sampled bytes that
\* differs from the first in width, height and in bytes that are not sampled
C38_Witness ==
    /\ call = 2
    /\ pc = "done"
    /\ Len(Sampled(image.data)) = 7
    /\ image.width # prev.image.width
    /\ image.height # prev.image.height
    /\ image.data # prev.image.data

(***************************************************************************)
(* the six bands                                                           *)
(***************************************************************************)
\* the bands [floor(b * height / 6), floor((b + 1) * height / 6)) are disjoint
\* and cover the rows; they are the rows getRegionBrightness is handed, and
\* the image method reads its lines from them
BandsPartition ==
    /\ \A b \in 0..5 :
          BandRows(image, b) = BandStart(image, b)..(BandStart(image, b + 1) - 1)
    /\ \A a \in 0..5 : \A b \in 0..5 :
          a # b => BandRows(image, a) \cap BandRows(image, b) = {}
    /\ UNION {BandRows(image, b) : b \in 0..5} = 0..(image.height - 1)
    /\ \A b \in 0..5 : \A y \in 0..(image.height - 1) :
          y \in BandRows(image, b) <=> (6 * y + 6 > b * image.height /\ 6 * y + 6 <= (b + 1) * image.height)
    /\ YangIffBandAbove128

LeftPile(stalks, u) == FloorTimes(u, (stalks - 1) - 1) + 1

\* the stalks each of the three divisions starts from
StalksAt(us) ==
    LET remainders == Remainders(us)
    IN  <<49, 49 - remainders[1], 49 - (remainders[1] + remainders[2])>>

\* first + second + third
ClassificationSum(us) ==
    LET remainders == Remainders(us)
    IN  (IF remainders[1] = 5 THEN 3 ELSE 2)
        + (IF remainders[2] = 4 THEN 3 ELSE 2)
        + (IF remainders[3] = 4 THEN 3 ELSE 2)

\* C36: whatever the three left piles, the first division leaves 5 or 9
\* stalks in hand and the second and the third leave 4 or 8; the left pile of
\* a division of n stalks has 1 to n - 2 stalks, so that neither pile is
\* empty.
C36_InHandCounts ==
    method = "yarrow" =>
        \A u1 \in StalkDraws, u2 \in StalkDraws, u3 \in StalkDraws :
            LET us == <<u1, u2, u3>>
                remainders == Remainders(us)
                stalks == StalksAt(us)
            IN  /\ remainders[1] \in {5, 9}
                /\ remainders[2] \in {4, 8}
                /\ remainders[3] \in {4, 8}
                /\ \A div \in 1..3 :
                      /\ LeftPile(stalks[div], us[div]) \in 1..(stalks[div] - 2)
                      /\ (stalks[div] - 1) - LeftPile(stalks[div], us[div]) >= 1

\* whatever the three left piles, the sum is one the table has an entry for,
\* and the entry is what is returned
SumsInTable ==
    \A u1 \in StalkDraws, u2 \in StalkDraws, u3 \in StalkDraws :
        /\ ClassificationSum(<<u1, u2, u3>>) \in {6, 7, 8, 9}
        /\ valueMap(ClassificationSum(<<u1, u2, u3>>)) # 0
        /\ simulateYarrowStalkDivision(<<u1, u2, u3>>)
              = valueMap(ClassificationSum(<<u1, u2, u3>>))

\* C37: the three classifications, each 2 or 3, add up to 6, 7, 8 or 9
\* whatever the draws, so that simulateYarrowStalkDivision returns the table's
\* entry for the sum and never the fallback 7: no line of the yarrow method
\* has the value 7.
C37_FallbackNeverTaken ==
    method = "yarrow" =>
        /\ SumsInTable
        /\ \A k \in 1..Len(lines) :
              /\ lines[k].value \in {valueMap(sum) : sum \in {6, 7, 8, 9}}
              /\ lines[k].value # 7

\* the yarrow method has drawn its six lines, from the table's entries for
\* two different sums
C37_Witness ==
    /\ method = "yarrow"
    /\ pc = "done"
    /\ \E k \in 1..6 : lines[k].value = 9
    /\ \E k \in 1..6 : lines[k].value = 8

(***************************************************************************)
(* the compositor and the edges of the canvas                              *)
(***************************************************************************)
\* the frame reaches beyond the right or the lower edge of the canvas
Overhangs(frame) ==
    \/ frame.left + frame.frameWidth > width
    \/ frame.top + frame.frameHeight > height

\* C39: drawing a frame changes canvas pixel (left + x, top + y) only, for a
\* source pixel (x, y) of the frame with left + x < width and top + y <
\* height, and gives it that source pixel's colour: a source pixel beyond an
\* edge is dropped and changes no pixel of another row; every output frame
\* has width * height pixels of four bytes, whatever the frame's size and
\* offset.
C39_NoWriteOutside ==
    [][Drew =>
          /\ Len(frameImageData') = width * height
          /\ \A p \in 1..(width * height) :
                frameImageData'[p] # Base[p] =>
                   /\ \E x \in 0..(frames[frameIndex].frameWidth - 1),
                         y \in 0..(frames[frameIndex].frameHeight - 1) :
                         /\ frames[frameIndex].left + x < width
                         /\ frames[frameIndex].top + y < height
                         /\ Column(p) = frames[frameIndex].left + x
                         /\ Row(p) = frames[frameIndex].top + y
                   /\ frameImageData'[p] = ColourAt(frames[frameIndex], p)
          /\ \A j \in 1..Len(resultFrames') :
                /\ resultFrames'[j].imageData.width = width
                /\ resultFrames'[j].imageData.height = height
                /\ Len(resultFrames'[j].imageData.data) = width * height
                /\ \A p \in 1..(width * height) :
                      Len(resultFrames'[j].imageData.data[p]) = 4]_vars

\* a file of one frame, two pixels wide and placed in the second column of
\* the canvas of two columns, has been composed: the frame's first column is
\* painted and its second column, beyond the edge, is not in the next row
C39_Witness ==
    /\ gifPc = "returned"
    /\ Len(frames) = 1
    /\ Len(resultFrames) = 1
    /\ Overhangs(frames[1])
    /\ frames[1].left = 1 /\ frames[1].frameWidth = 2
    /\ frameImageData[2] = <<70, 80, 90, 255>>
    /\ frameImageData[3] = <<0, 0, 0, 0>>
    /\ frameImageData[4] = <<40, 50, 60, 255>>

(***************************************************************************)
(* what the interpretation points at                                       *)
(***************************************************************************)
\* C40: for a result built by buildDivinationResult with the complete
\* catalogue, an interpretation whose focus is 'transformed' or 'both' comes
\* with a transformed hexagram that is not null, and every position in its
\* relevantLines is one of 1..6.
C40_FocusHasHexagram ==
    pc = "read" =>
        /\ interp.focus \in {"transformed", "both"} =>
              /\ result.transformedHexagram # null
              /\ result.transformedHexagram.number \in 1..64
        /\ \A k \in 1..Len(interp.relevantLines) :
              interp.relevantLines[k] \in 1..6

\* a result with three changing lines has been interpreted with the focus on
\* both hexagrams, and its transformed hexagram is another than its primary
C40_Witness ==
    /\ pc = "read"
    /\ interp.focus = "both"
    /\ Len(result.changingLines) = 3
    /\ result.transformedHexagram # null
    /\ result.transformedHexagram.number # result.primaryHexagram.number

====
